---- MODULE Spec2Model ----
(***************************************************************************)
(* A model of dexter-kupo-rs: the reconstruction of DEX liquidity pools    *)
(* from the unspent outputs and datums served by a Kupo indexer.           *)
(*                                                                         *)
(* Unit identifiers.  A unit of an output is the string "lovelace" or the  *)
(* 56 hex characters of a policy id followed by the asset name             *)
(* (kupo.rs:104-121 removes the '.' between them).  Every test the code    *)
(* makes on a unit is a comparison of the whole string, of its first 56    *)
(* characters (starts_with a policy id) or of the characters after them    *)
(* (cswap.rs:60), so an identifier is modelled as the pair of its policy   *)
(* part and its name part:                                                 *)
(*    "lovelace"                 [policy |-> "lovelace", name |-> ""]      *)
(*    shorter than 56 characters [policy |-> "",         name |-> text]    *)
(*    policy ++ name             [policy |-> policy,     name |-> name]    *)
(*                                                                         *)
(* Quantities.  An output carries each quantity as a decimal string        *)
(* (utxo.rs:7); it is modelled as the integer the string denotes, and a    *)
(* negative one stands for a string that u64 parsing rejects.              *)
(*                                                                         *)
(* Fees.  pool_fee_percent is an f64; it is modelled as the exact fraction *)
(* [num, den] of a percent that the code computes.                         *)
(***************************************************************************)
EXTENDS Integers, Sequences, FiniteSets, TLC

VARIABLES
    call,       \* the last single-output call: liquidity_pool_from_utxo or _extend
    query,      \* the whole-query operation in progress (resolve by pair / by id / export)
    indexer,    \* the calls made to the indexer by the operation in progress
    fanout      \* the tasks of a fan-out, its semaphore and its counters

vars == <<call, query, indexer, fanout>>

(***************************************************************************)
(* Bounds of the model.                                                    *)
(***************************************************************************)
\* number of ordinary (non-marker) tokens an output may hold besides lovelace
MaxTokens == 3
\* number of distinct pool-identifying marker units of one variant
MaxMarkers == 2
\* number of outputs in an indexer snapshot
MaxOutputs == 2

(***************************************************************************)
(* Program constants.                                                      *)
(***************************************************************************)
MIN_POOL_ADA == 3000000

MinswapV1_LP_TOKEN_POLICY_ID == "e4214b7cce62ac6fbba385d164df48e157eae5863521b4b67ca71d86"
MinswapV1_POOL_NFT_POLICY_ID == "0be55d262b29f564998ff81efe21bdc0022621c12f15af08d0f2ddb1"
MinswapV1_POOL_VALIDITY_ASSET_JOINED ==
    [policy |-> "13aa2accf2e1561723aa26871e071fdf32c867cff7e7d50ad470d62f", name |-> "4d494e53574150"]

MinswapV2_LP_TOKEN_POLICY_ID == "f5808c2c990d86da54bfc97d89cee6efa20cd8461616359478d96b4c"
MinswapV2_POOL_VALIDITY_ASSET ==
    [policy |-> "f5808c2c990d86da54bfc97d89cee6efa20cd8461616359478d96b4c", name |-> "4d5350"]

SundaeSwapV1_LP_TOKEN_POLICY_ID == "0029cb7c88c7567b63d1a512c0ed626aa169688ec980730c0473b913"
SundaeSwapV3_LP_TOKEN_POLICY_ID == "e0302560ced2fdcbfcb2602697df970cd0d6a38f94b32703f51c312b"

WingRiders_POOL_VALIDITY_POLICY == "026a18d04a0c642759bb3d83b12e3344894e5c1c7b2aeb1a2113a570"
WingRiders_POOL_VALIDITY_ASSET_JOINED ==
    [policy |-> "026a18d04a0c642759bb3d83b12e3344894e5c1c7b2aeb1a2113a570", name |-> "4c"]

WingRidersV2_POOL_VALIDITY_POLICY == "6fdc63a1d71dc2c65502b79baae7fb543185702b12c3c5fb639ed737"
WingRidersV2_POOL_VALIDITY_ASSET_JOINED ==
    [policy |-> "6fdc63a1d71dc2c65502b79baae7fb543185702b12c3c5fb639ed737", name |-> "4c"]

CSwap_LP_TOKEN_NAME_HEX == "63"

\* the IDENTIFIER constant of each variant implementing BaseDex
Variants ==
    {"MINSWAP", "MINSWAPV2", "SUNDAESWAPV1", "SUNDAESWAPV3",
     "WINGRIDER", "WINGRIDERV2", "CSWAP", "VYFINANCE"}

(***************************************************************************)
(* Results.                                                                *)
(***************************************************************************)
Ok(v) == [ok |-> TRUE, val |-> v]
Err == [ok |-> FALSE]

\* Result<Option<LiquidityPool>>
SomePool(p) == [tag |-> "Some", pool |-> p]
NonePool == [tag |-> "None"]
ErrPool == [tag |-> "Err"]

(***************************************************************************)
(* models/asset.rs                                                         *)
(***************************************************************************)
LovelaceUnit == [policy |-> "lovelace", name |-> ""]
EmptyId == [policy |-> "", name |-> ""]

Lovelace == [kind |-> "Lovelace"]
Asset(policy_id, name_hex, decimals) ==
    [kind |-> "Asset", policy_id |-> policy_id, name_hex |-> name_hex, decimals |-> decimals]

is_lovelace(token) == token.kind = "Lovelace"

\* the native unit for "lovelace", the empty string and any id shorter than a
\* policy id; otherwise the id split after its 56th character
from_identifier(id, decimals) ==
    IF id = LovelaceUnit \/ id.policy = ""
    THEN Lovelace
    ELSE Asset(id.policy, id.name, decimals)

token_identifier(token) ==
    IF token.kind = "Lovelace"
    THEN LovelaceUnit
    ELSE [policy |-> token.policy_id, name |-> token.name_hex]

(***************************************************************************)
(* models/liquidity_pool.rs                                                *)
(***************************************************************************)
Fee(num, den) == [num |-> num, den |-> den]

LiquidityPool_new(dex_identifier, asset_a, asset_b, reserve_a, reserve_b, fee, pool_id) ==
    [dex_identifier |-> dex_identifier,
     asset_a |-> asset_a, asset_b |-> asset_b,
     reserve_a |-> reserve_a, reserve_b |-> reserve_b,
     pool_id |-> pool_id,
     pool_fee_percent |-> fee,
     total_lp_tokens |-> 0]

(***************************************************************************)
(* Helpers on integers and strings.                                        *)
(***************************************************************************)
\* saturating_sub on u64
SatSub(a, b) == IF b >= a THEN 0 ELSE a - b

\* str::parse::<u64> of a quantity string
ParseU64(q) == IF q >= 0 THEN Ok(q) ELSE Err

(***************************************************************************)
(* dex/cbor.rs: the decoded value tree (ciborium::value::Value) and its    *)
(* typed projections.  A datum hex string is modelled by the tree it       *)
(* decodes to, or by Undecodable when hex::decode or ciborium rejects it.  *)
(***************************************************************************)
CInt(n) == [kind |-> "int", int |-> n]
\* Value::Integer holds every integer from -2^64 to 2^64 - 1.  An integer
\* beyond the integers TLC holds is written top * 2^63 + low, with top
\* from -2 to 1 and low, from 0 to 2^63 - 1, as three digits of 21 bits, the
\* first the most significant; the same record stands for the number itself
WideInt(top, low) == [top |-> top, low |-> low]
CWide(top, low) == [kind |-> "wide", wide |-> WideInt(top, low)]
\* an integer result beyond the integers TLC holds
OkWide(w) == [ok |-> TRUE, wide |-> w]

\* whether top * 2^63 + low is within 31 bits, and the integer it is then
Narrow(w) ==
    IF w.top = 0 /\ w.low[1] = 0 /\ w.low[2] < 1024
    THEN Ok(w.low[2] * 2097152 + w.low[3])
    ELSE IF w.top = -1 /\ w.low[1] = 2097151 /\ w.low[2] >= 2097152 - 1024
    THEN Ok(-((2097151 - w.low[2]) * 2097152 + (2097152 - w.low[3])))
    ELSE Err
CBytes(h) == [kind |-> "bytes", hex |-> h]
CArray(items) == [kind |-> "array", items |-> items]
CTag(t, inner) == [kind |-> "tag", tag |-> t, inner |-> inner]
\* Plutus constructor alternative alt: Tag(121 + alt, Array(fields))
Constr(alt, fields) == CTag(121 + alt, CArray(fields))

Undecodable == [kind |-> "undecodable"]

decode_cbor(cbor_hex) == IF cbor_hex.kind = "undecodable" THEN Err ELSE Ok(cbor_hex)

constr_fields(v) ==
    IF v.kind = "tag"
    THEN IF v.inner.kind = "array" THEN Ok(v.inner.items) ELSE Err
    ELSE Err

is_constr(v) == v.kind = "tag"

\* is_nonempty_constr answering false for every value
is_nonempty_constr_never(v) == FALSE

is_nonempty_constr(v) ==
    IF v.kind = "tag"
    THEN IF v.inner.kind = "array" THEN v.inner.items # <<>> ELSE FALSE
    ELSE FALSE

\* value_to_u64 with the cast applied to the negative integers as well
value_to_u64_cast_only(v) ==
    IF v.kind = "int" THEN Ok(v.int)
    ELSE IF v.kind = "wide" THEN OkWide(WideInt(v.wide.top % 2, v.wide.low))
    ELSE Err

\* n as u64 keeps the low 64 bits of the i128
value_to_u64(v) ==
    IF v.kind = "int"
    THEN IF v.int < 0 THEN Err ELSE Ok(v.int)
    ELSE IF v.kind = "wide"
    THEN IF v.wide.top < 0 THEN Err ELSE OkWide(WideInt(v.wide.top % 2, v.wide.low))
    ELSE Err

\* n as i64 keeps the low 64 bits of the i128 and reads bit 63 as the sign:
\* the integers CInt holds are within the i64 range and keep their value
value_to_i64(v) ==
    IF v.kind = "int" THEN Ok(v.int)
    ELSE IF v.kind = "wide"
    THEN LET cast == WideInt(-(v.wide.top % 2), v.wide.low)
         IN IF Narrow(cast).ok THEN Narrow(cast) ELSE OkWide(cast)
    ELSE Err

value_to_hex(v) == IF v.kind = "bytes" THEN Ok(v.hex) ELSE Err

parse_asset_constr(v) ==
    LET fields == constr_fields(v) IN
    IF ~fields.ok THEN Err
    ELSE IF Len(fields.val) # 2 THEN Err
    ELSE LET policy == value_to_hex(fields.val[1])
             name == value_to_hex(fields.val[2])
         IN IF ~policy.ok \/ ~name.ok THEN Err
            ELSE Ok(<<policy.val, name.val>>)

(***************************************************************************)
(* models/utxo.rs.  An output: its transaction hash, its holdings in the   *)
(* order the indexer lists them, and its optional datum hash.              *)
(***************************************************************************)
NoHash == "none"
Unit(unit, quantity) == [unit |-> unit, quantity |-> quantity]
Utxo(tx_hash, amount, data_hash) ==
    [tx_hash |-> tx_hash, amount |-> amount, data_hash |-> data_hash]

\* a_idx without the test of the length: the first holding in every case
a_idx_first(relevant) == 1

\* the two reserve positions among the relevant holdings (1-based): the first
\* two when there are 2, the second and third otherwise
a_idx(relevant) == IF Len(relevant) = 2 THEN 1 ELSE 2
b_idx(relevant) == IF Len(relevant) = 2 THEN 2 ELSE 3

\* the tail shared by the variants' liquidity_pool_from_utxo: the two reserve
\* holdings become the assets and, once their quantities parse, the reserves
PoolFromRelevant(identifier, relevant, fee, pool_id) ==
    LET a == relevant[a_idx(relevant)]
        b == relevant[b_idx(relevant)]
        reserve_a == ParseU64(a.quantity)
        reserve_b == ParseU64(b.quantity)
    IN IF ~reserve_a.ok \/ ~reserve_b.ok THEN ErrPool
       ELSE SomePool(LiquidityPool_new(identifier,
                from_identifier(a.unit, 0), from_identifier(b.unit, 0),
                reserve_a.val, reserve_b.val, fee, pool_id))

(***************************************************************************)
(* dex/minswap_v1.rs                                                       *)
(***************************************************************************)
MinswapV1_liquidity_pool_from_utxo(utxo, pool_id) ==
    IF utxo.data_hash = NoHash THEN NonePool
    ELSE
    LET relevant == SelectSeq(utxo.amount, LAMBDA a:
            /\ a.unit # MinswapV1_POOL_VALIDITY_ASSET_JOINED
            /\ a.unit.policy # MinswapV1_LP_TOKEN_POLICY_ID
            /\ a.unit.policy # MinswapV1_POOL_NFT_POLICY_ID)
        nfts == SelectSeq(utxo.amount, LAMBDA a:
            a.unit.policy = MinswapV1_POOL_NFT_POLICY_ID)
        id == IF nfts = <<>> THEN pool_id ELSE nfts[1].unit
    IN IF Len(relevant) < 2 THEN NonePool
       ELSE PoolFromRelevant("MINSWAP", relevant, Fee(3, 10), id)

(***************************************************************************)
(* dex/minswap_v2.rs                                                       *)
(***************************************************************************)
MinswapV2_liquidity_pool_from_utxo(utxo, pool_id) ==
    IF utxo.data_hash = NoHash THEN NonePool
    ELSE
    LET relevant_assets == SelectSeq(utxo.amount, LAMBDA a:
            /\ a.unit # MinswapV2_POOL_VALIDITY_ASSET
            /\ a.unit.policy # MinswapV2_LP_TOKEN_POLICY_ID)
        lps == SelectSeq(utxo.amount, LAMBDA a:
            /\ a.unit.policy = MinswapV2_LP_TOKEN_POLICY_ID
            /\ a.unit # MinswapV2_POOL_VALIDITY_ASSET)
        id == IF lps = <<>> THEN pool_id ELSE lps[1].unit
    IN IF Len(relevant_assets) < 2 THEN NonePool
       ELSE PoolFromRelevant("MINSWAPV2", relevant_assets, Fee(3, 10), id)

\* [ok, reserve_a, reserve_b, pool_asset_a_*, pool_asset_b_*, total_lp_tokens, base_fee]
MinswapV2_parse_pool_datum(cbor_hex) ==
    LET value == decode_cbor(cbor_hex) IN
    IF ~value.ok THEN Err ELSE
    LET fields == constr_fields(value.val) IN
    IF ~fields.ok THEN Err
    ELSE IF Len(fields.val) < 7 THEN Err
    ELSE
    LET f == fields.val
        asset_a == parse_asset_constr(f[2])
        asset_b == parse_asset_constr(f[3])
        total_lp_tokens == value_to_u64(f[4])
        reserve_a == value_to_u64(f[5])
        reserve_b == value_to_u64(f[6])
        base_fee == value_to_u64(f[7])
    IN IF ~asset_a.ok \/ ~asset_b.ok \/ ~total_lp_tokens.ok
          \/ ~reserve_a.ok \/ ~reserve_b.ok \/ ~base_fee.ok
       THEN Err
       ELSE Ok([reserve_a |-> reserve_a.val, reserve_b |-> reserve_b.val,
                pool_asset_a_policy |-> asset_a.val[1], pool_asset_a_name |-> asset_a.val[2],
                pool_asset_b_policy |-> asset_b.val[1], pool_asset_b_name |-> asset_b.val[2],
                total_lp_tokens |-> total_lp_tokens.val, base_fee |-> base_fee.val])

\* the comparison answering true whatever the datum declares
pool_asset_a_matches_always(pool, d) == TRUE

\* whether the record's asset_a is the asset the datum declares first; the
\* datum writes lovelace as an empty policy and an empty name
pool_asset_a_matches(pool, d) ==
    LET datum_asset_a_is_lovelace ==
            d.pool_asset_a_policy = "" /\ d.pool_asset_a_name = ""
    IN IF datum_asset_a_is_lovelace
       THEN is_lovelace(pool.asset_a)
       ELSE token_identifier(pool.asset_a) =
                [policy |-> d.pool_asset_a_policy, name |-> d.pool_asset_a_name]

\* datum is the answer of kupo.datum for the output's datum hash.  The result
\* carries the hashes for which kupo.datum was called.
MinswapV2_liquidity_pool_from_utxo_extend(utxo, pool_id, datum) ==
    LET base == MinswapV2_liquidity_pool_from_utxo(utxo, pool_id) IN
    IF base.tag # "Some" THEN [res |-> base, fetched |-> <<>>]
    ELSE IF utxo.data_hash = NoHash THEN [res |-> NonePool, fetched |-> <<>>]
    ELSE
    LET fetched == <<utxo.data_hash>> IN
    IF ~datum.ok THEN [res |-> ErrPool, fetched |-> fetched]
    ELSE
    LET parsed == MinswapV2_parse_pool_datum(datum.val) IN
    IF ~parsed.ok THEN [res |-> ErrPool, fetched |-> fetched]
    ELSE IF parsed.val.pool_asset_b_policy = MinswapV2_LP_TOKEN_POLICY_ID
    THEN [res |-> NonePool, fetched |-> fetched]
    ELSE
    LET d == parsed.val
        pool == base.pool
    IN [res |-> SomePool([pool EXCEPT
                    !.pool_fee_percent = Fee(d.base_fee, 100),
                    !.total_lp_tokens = d.total_lp_tokens,
                    !.reserve_a = IF pool_asset_a_matches(pool, d)
                                  THEN d.reserve_a ELSE d.reserve_b,
                    !.reserve_b = IF pool_asset_a_matches(pool, d)
                                  THEN d.reserve_b ELSE d.reserve_a]),
        fetched |-> fetched]

(***************************************************************************)
(* dex/sundaeswap_v1.rs                                                    *)
(***************************************************************************)
\* the filter closure assigns pool_id at every LP-policy unit it meets, so the
\* last one of the holdings stays
SundaeSwapV1_liquidity_pool_from_utxo(utxo, pool_id) ==
    IF utxo.data_hash = NoHash THEN NonePool
    ELSE
    LET relevant == SelectSeq(utxo.amount, LAMBDA a:
            a.unit.policy # SundaeSwapV1_LP_TOKEN_POLICY_ID)
        lps == SelectSeq(utxo.amount, LAMBDA a:
            a.unit.policy = SundaeSwapV1_LP_TOKEN_POLICY_ID)
        id == IF lps = <<>> THEN pool_id ELSE lps[Len(lps)].unit
    IN IF Len(relevant) \notin {2, 3} THEN NonePool
       ELSE PoolFromRelevant("SUNDAESWAPV1", relevant, Fee(3, 10), id)

\* (total_lp, numerator, denominator)
SundaeSwapV1_parse_pool_datum(cbor_hex) ==
    LET value == decode_cbor(cbor_hex) IN
    IF ~value.ok THEN Err ELSE
    LET fields == constr_fields(value.val) IN
    IF ~fields.ok THEN Err
    ELSE IF Len(fields.val) < 4 THEN Err
    ELSE
    LET total_lp == value_to_u64(fields.val[3])
        fee_fields == constr_fields(fields.val[4])
    IN IF ~total_lp.ok \/ ~fee_fields.ok THEN Err
       ELSE IF Len(fee_fields.val) < 2 THEN Err
       ELSE LET numerator == value_to_u64(fee_fields.val[1])
                denominator == value_to_u64(fee_fields.val[2])
            IN IF ~numerator.ok \/ ~denominator.ok THEN Err
               ELSE Ok([total_lp |-> total_lp.val,
                        numerator |-> numerator.val,
                        denominator |-> denominator.val])

SundaeSwapV1_liquidity_pool_from_utxo_extend(utxo, pool_id, datum) ==
    LET base == SundaeSwapV1_liquidity_pool_from_utxo(utxo, pool_id) IN
    IF base.tag # "Some" THEN [res |-> base, fetched |-> <<>>]
    ELSE IF utxo.data_hash = NoHash THEN [res |-> NonePool, fetched |-> <<>>]
    ELSE
    LET fetched == <<utxo.data_hash>> IN
    IF ~datum.ok THEN [res |-> ErrPool, fetched |-> fetched]
    ELSE
    LET parsed == SundaeSwapV1_parse_pool_datum(datum.val) IN
    IF ~parsed.ok THEN [res |-> ErrPool, fetched |-> fetched]
    ELSE
    LET d == parsed.val IN
    [res |-> SomePool([base.pool EXCEPT
                !.total_lp_tokens = d.total_lp,
                !.pool_fee_percent =
                    IF d.denominator > 0
                    THEN Fee(d.numerator * 100, d.denominator)
                    ELSE Fee(3, 10)]),
     fetched |-> fetched]

(***************************************************************************)
(* dex/sundaeswap_v3.rs                                                    *)
(***************************************************************************)
unsigned_abs(n) == IF n < 0 THEN -n ELSE n

SundaeSwapV3_liquidity_pool_from_utxo(utxo, pool_id) ==
    IF utxo.data_hash = NoHash THEN NonePool
    ELSE
    LET relevant == SelectSeq(utxo.amount, LAMBDA a:
            a.unit.policy # SundaeSwapV3_LP_TOKEN_POLICY_ID)
        lps == SelectSeq(utxo.amount, LAMBDA a:
            a.unit.policy = SundaeSwapV3_LP_TOKEN_POLICY_ID)
        id == IF lps = <<>> THEN pool_id ELSE lps[Len(lps)].unit
    IN IF Len(relevant) \notin {2, 3} THEN NonePool
       ELSE PoolFromRelevant("SUNDAESWAPV3", relevant, Fee(3, 10), id)

\* the datums served hold deductions that, read as i64, are within the
\* integers TLC holds
SundaeSwapV3_parse_pool_datum(cbor_hex) ==
    LET value == decode_cbor(cbor_hex) IN
    IF ~value.ok THEN Err ELSE
    LET fields == constr_fields(value.val) IN
    IF ~fields.ok THEN Err
    ELSE IF Len(fields.val) < 8 THEN Err
    ELSE
    LET total_lp == value_to_u64(fields.val[3])
        final_fee == value_to_u64(fields.val[5])
        lovelace_deduction == value_to_i64(fields.val[8])
    IN IF ~total_lp.ok \/ ~final_fee.ok \/ ~lovelace_deduction.ok THEN Err
       ELSE Ok([total_lp |-> total_lp.val, final_fee |-> final_fee.val,
                lovelace_deduction |-> lovelace_deduction.val])

SundaeSwapV3_liquidity_pool_from_utxo_extend(utxo, pool_id, datum) ==
    LET base == SundaeSwapV3_liquidity_pool_from_utxo(utxo, pool_id) IN
    IF base.tag # "Some" THEN [res |-> base, fetched |-> <<>>]
    ELSE IF utxo.data_hash = NoHash THEN [res |-> NonePool, fetched |-> <<>>]
    ELSE
    LET fetched == <<utxo.data_hash>> IN
    IF ~datum.ok THEN [res |-> ErrPool, fetched |-> fetched]
    ELSE
    LET parsed == SundaeSwapV3_parse_pool_datum(datum.val) IN
    IF ~parsed.ok THEN [res |-> ErrPool, fetched |-> fetched]
    ELSE
    LET d == parsed.val
        pool == base.pool
        deduction == unsigned_abs(d.lovelace_deduction)
        on_a == d.lovelace_deduction # 0 /\ is_lovelace(pool.asset_a)
        on_b == d.lovelace_deduction # 0 /\ ~is_lovelace(pool.asset_a)
                    /\ is_lovelace(pool.asset_b)
    IN [res |-> SomePool([pool EXCEPT
                    !.total_lp_tokens = d.total_lp,
                    !.pool_fee_percent = Fee(d.final_fee, 100),
                    !.reserve_a = IF on_a THEN SatSub(pool.reserve_a, deduction)
                                  ELSE pool.reserve_a,
                    !.reserve_b = IF on_b THEN SatSub(pool.reserve_b, deduction)
                                  ELSE pool.reserve_b]),
        fetched |-> fetched]

(***************************************************************************)
(* dex/wingriders.rs                                                       *)
(***************************************************************************)
\* the holding with no minimum deposit taken off
ada_reserve_whole(qty) == qty

ada_reserve(qty) == SatSub(qty, MIN_POOL_ADA)

\* the tail of the treasury variants' liquidity_pool_from_utxo: as
\* PoolFromRelevant, with the minimum deposit taken off a lovelace side
TreasuryPoolFromRelevant(identifier, relevant, fee, pool_id) ==
    LET a == relevant[a_idx(relevant)]
        b == relevant[b_idx(relevant)]
        raw_a == ParseU64(a.quantity)
        raw_b == ParseU64(b.quantity)
    IN IF ~raw_a.ok \/ ~raw_b.ok THEN ErrPool
       ELSE SomePool(LiquidityPool_new(identifier,
                from_identifier(a.unit, 0), from_identifier(b.unit, 0),
                IF a.unit = LovelaceUnit THEN ada_reserve(raw_a.val) ELSE raw_a.val,
                IF b.unit = LovelaceUnit THEN ada_reserve(raw_b.val) ELSE raw_b.val,
                fee, pool_id))

WingRiders_liquidity_pool_from_utxo(utxo, pool_id) ==
    IF utxo.data_hash = NoHash THEN NonePool
    ELSE
    LET relevant == SelectSeq(utxo.amount, LAMBDA a:
            a.unit.policy # WingRiders_POOL_VALIDITY_POLICY)
        ids == SelectSeq(utxo.amount, LAMBDA a:
            /\ a.unit.policy = WingRiders_POOL_VALIDITY_POLICY
            /\ a.unit # WingRiders_POOL_VALIDITY_ASSET_JOINED)
        id == IF ids = <<>> THEN pool_id ELSE ids[1].unit
    IN IF Len(relevant) < 2 THEN NonePool
       ELSE TreasuryPoolFromRelevant("WINGRIDER", relevant, Fee(35, 100), id)

WingRiders_parse_pool_datum(cbor_hex) ==
    LET value == decode_cbor(cbor_hex) IN
    IF ~value.ok THEN Err ELSE
    LET top == constr_fields(value.val) IN
    IF ~top.ok THEN Err
    ELSE IF Len(top.val) < 2 THEN Err
    ELSE
    LET inner == constr_fields(top.val[2]) IN
    IF ~inner.ok THEN Err
    ELSE IF Len(inner.val) < 4 THEN Err
    ELSE
    LET treasury_a == value_to_u64(inner.val[3])
        treasury_b == value_to_u64(inner.val[4])
    IN IF ~treasury_a.ok \/ ~treasury_b.ok THEN Err
       ELSE Ok([treasury_a |-> treasury_a.val, treasury_b |-> treasury_b.val])

WingRiders_liquidity_pool_from_utxo_extend(utxo, pool_id, datum) ==
    LET base == WingRiders_liquidity_pool_from_utxo(utxo, pool_id) IN
    IF base.tag # "Some" THEN [res |-> base, fetched |-> <<>>]
    ELSE IF utxo.data_hash = NoHash THEN [res |-> NonePool, fetched |-> <<>>]
    ELSE
    LET fetched == <<utxo.data_hash>> IN
    IF ~datum.ok THEN [res |-> ErrPool, fetched |-> fetched]
    ELSE
    LET parsed == WingRiders_parse_pool_datum(datum.val) IN
    IF ~parsed.ok THEN [res |-> ErrPool, fetched |-> fetched]
    ELSE
    LET d == parsed.val
        pool == base.pool
    IN [res |-> SomePool([pool EXCEPT
                    !.reserve_a = SatSub(pool.reserve_a, d.treasury_a),
                    !.reserve_b = SatSub(pool.reserve_b, d.treasury_b)]),
        fetched |-> fetched]

(***************************************************************************)
(* dex/wingriders_v2.rs                                                    *)
(***************************************************************************)
WingRidersV2_liquidity_pool_from_utxo(utxo, pool_id) ==
    IF utxo.data_hash = NoHash THEN NonePool
    ELSE
    LET relevant == SelectSeq(utxo.amount, LAMBDA a:
            a.unit.policy # WingRidersV2_POOL_VALIDITY_POLICY)
        ids == SelectSeq(utxo.amount, LAMBDA a:
            /\ a.unit.policy = WingRidersV2_POOL_VALIDITY_POLICY
            /\ a.unit # WingRidersV2_POOL_VALIDITY_ASSET_JOINED)
        id == IF ids = <<>> THEN pool_id ELSE ids[1].unit
    IN IF Len(relevant) < 2 THEN NonePool
       ELSE TreasuryPoolFromRelevant("WINGRIDERV2", relevant, Fee(35, 100), id)

\* value_to_u64(..).unwrap_or(0)
U64OrZero(v) == LET r == value_to_u64(v) IN IF r.ok THEN r.val ELSE 0

WingRidersV2_parse_pool_datum(cbor_hex) ==
    LET value == decode_cbor(cbor_hex) IN
    IF ~value.ok THEN Err ELSE
    LET fields == constr_fields(value.val) IN
    IF ~fields.ok THEN Err
    ELSE IF Len(fields.val) < 14 THEN Err
    ELSE
    LET f == fields.val
        swap_fee == value_to_u64(f[6])
        protocol_fee == value_to_u64(f[7])
        project_fee == value_to_u64(f[8])
        reserve_fee == value_to_u64(f[9])
        treasury_a == value_to_u64(f[13])
        treasury_b == value_to_u64(f[14])
    IN IF ~swap_fee.ok \/ ~protocol_fee.ok \/ ~project_fee.ok \/ ~reserve_fee.ok
          \/ ~treasury_a.ok \/ ~treasury_b.ok
       THEN Err
       ELSE Ok([swap_fee |-> swap_fee.val, protocol_fee |-> protocol_fee.val,
                project_fee |-> project_fee.val, reserve_fee |-> reserve_fee.val,
                treasury_a |-> treasury_a.val, treasury_b |-> treasury_b.val,
                project_treasury_a |-> IF Len(f) > 14 THEN U64OrZero(f[15]) ELSE 0,
                project_treasury_b |-> IF Len(f) > 15 THEN U64OrZero(f[16]) ELSE 0,
                is_stable |-> IF Len(f) > 20 THEN is_nonempty_constr(f[21]) ELSE FALSE])

\* the swap fee alone
fee_components_swap_only(d) == d.swap_fee

\* the multi-component fee of a datum, in hundredths of a percent
fee_components(d) == d.swap_fee + d.protocol_fee + d.project_fee + d.reserve_fee

WingRidersV2_liquidity_pool_from_utxo_extend(utxo, pool_id, datum) ==
    LET base == WingRidersV2_liquidity_pool_from_utxo(utxo, pool_id) IN
    IF base.tag # "Some" THEN [res |-> base, fetched |-> <<>>]
    ELSE IF utxo.data_hash = NoHash THEN [res |-> NonePool, fetched |-> <<>>]
    ELSE
    LET fetched == <<utxo.data_hash>> IN
    IF ~datum.ok THEN [res |-> ErrPool, fetched |-> fetched]
    ELSE
    LET parsed == WingRidersV2_parse_pool_datum(datum.val) IN
    IF ~parsed.ok THEN [res |-> ErrPool, fetched |-> fetched]
    ELSE IF parsed.val.is_stable THEN [res |-> NonePool, fetched |-> fetched]
    ELSE
    LET d == parsed.val
        pool == base.pool
    IN [res |-> SomePool([pool EXCEPT
                    !.reserve_a = SatSub(SatSub(pool.reserve_a, d.treasury_a),
                                         d.project_treasury_a),
                    !.reserve_b = SatSub(SatSub(pool.reserve_b, d.treasury_b),
                                         d.project_treasury_b),
                    !.pool_fee_percent = Fee(fee_components(d), 100)]),
        fetched |-> fetched]

(***************************************************************************)
(* dex/cswap.rs                                                            *)
(***************************************************************************)
\* whether the identifier of a unit, policy and name joined, ends in the two
\* characters of the LP token name: its name does, among the names of the
\* units of this model
is_lp_token_by_suffix(unit) ==
    /\ unit # LovelaceUnit
    /\ unit.name \in {CSwap_LP_TOKEN_NAME_HEX, "746f6b" \o CSwap_LP_TOKEN_NAME_HEX}

\* unit.len() > 56 && &unit[56..] == "63"
is_lp_token(unit) ==
    /\ unit # LovelaceUnit
    /\ unit.policy # ""
    /\ unit.name = CSwap_LP_TOKEN_NAME_HEX

CSwap_liquidity_pool_from_utxo(utxo, pool_id) ==
    IF utxo.data_hash = NoHash THEN NonePool
    ELSE
    LET relevant == SelectSeq(utxo.amount, LAMBDA a: ~is_lp_token(a.unit))
        lps == SelectSeq(utxo.amount, LAMBDA a: is_lp_token(a.unit))
        id == IF lps = <<>> THEN pool_id ELSE lps[Len(lps)].unit
    IN IF Len(relevant) \notin {2, 3} THEN NonePool
       ELSE PoolFromRelevant("CSWAP", relevant, Fee(3, 10), id)

CSwap_parse_pool_datum(cbor_hex) ==
    LET value == decode_cbor(cbor_hex) IN
    IF ~value.ok THEN Err ELSE
    LET fields == constr_fields(value.val) IN
    IF ~fields.ok THEN Err
    ELSE IF Len(fields.val) < 2 THEN Err
    ELSE
    LET total_lp == value_to_u64(fields.val[1])
        lp_fee == value_to_u64(fields.val[2])
    IN IF ~total_lp.ok \/ ~lp_fee.ok THEN Err
       ELSE Ok([total_lp |-> total_lp.val, lp_fee |-> lp_fee.val])

CSwap_liquidity_pool_from_utxo_extend(utxo, pool_id, datum) ==
    LET base == CSwap_liquidity_pool_from_utxo(utxo, pool_id) IN
    IF base.tag # "Some" THEN [res |-> base, fetched |-> <<>>]
    ELSE IF utxo.data_hash = NoHash THEN [res |-> NonePool, fetched |-> <<>>]
    ELSE
    LET fetched == <<utxo.data_hash>> IN
    IF ~datum.ok THEN [res |-> ErrPool, fetched |-> fetched]
    ELSE
    LET parsed == CSwap_parse_pool_datum(datum.val) IN
    IF ~parsed.ok THEN [res |-> ErrPool, fetched |-> fetched]
    ELSE
    [res |-> SomePool([base.pool EXCEPT
                !.total_lp_tokens = parsed.val.total_lp,
                !.pool_fee_percent = Fee(parsed.val.lp_fee, 100)]),
     fetched |-> fetched]

(***************************************************************************)
(* dex/vyfinance.rs                                                        *)
(***************************************************************************)
VyFinance_parse_pool_datum(cbor_hex) ==
    LET value == decode_cbor(cbor_hex) IN
    IF ~value.ok THEN Err ELSE
    LET fields == constr_fields(value.val) IN
    IF ~fields.ok THEN Err
    ELSE IF Len(fields.val) < 3 THEN Err
    ELSE
    LET bar_fee_a == value_to_u64(fields.val[1])
        bar_fee_b == value_to_u64(fields.val[2])
        total_lp == value_to_u64(fields.val[3])
    IN IF ~bar_fee_a.ok \/ ~bar_fee_b.ok \/ ~total_lp.ok THEN Err
       ELSE Ok([bar_fee_a |-> bar_fee_a.val, bar_fee_b |-> bar_fee_b.val,
                total_lp |-> total_lp.val])

\* Option<LiquidityPool>: every failure, of a quantity, of the datum fetch or of
\* the datum decode, is None
build_pool_from_utxo(utxo, pool_nft_id, datum) ==
    IF utxo.data_hash = NoHash THEN [res |-> NonePool, fetched |-> <<>>]
    ELSE
    LET relevant == SelectSeq(utxo.amount, LAMBDA a: a.unit # pool_nft_id) IN
    IF Len(relevant) < 2 THEN [res |-> NonePool, fetched |-> <<>>]
    ELSE
    LET a == relevant[a_idx(relevant)]
        b == relevant[b_idx(relevant)]
        raw_a == ParseU64(a.quantity)
        raw_b == ParseU64(b.quantity)
    IN
    IF ~raw_a.ok \/ ~raw_b.ok THEN [res |-> NonePool, fetched |-> <<>>]
    ELSE
    LET fetched == <<utxo.data_hash>> IN
    IF ~datum.ok THEN [res |-> NonePool, fetched |-> fetched]
    ELSE
    LET parsed == VyFinance_parse_pool_datum(datum.val) IN
    IF ~parsed.ok THEN [res |-> NonePool, fetched |-> fetched]
    ELSE
    [res |-> SomePool([dex_identifier |-> "VYFINANCE",
                asset_a |-> from_identifier(a.unit, 0),
                asset_b |-> from_identifier(b.unit, 0),
                reserve_a |-> SatSub(raw_a.val, parsed.val.bar_fee_a),
                reserve_b |-> SatSub(raw_b.val, parsed.val.bar_fee_b),
                pool_id |-> pool_nft_id,
                pool_fee_percent |-> Fee(3, 10),
                total_lp_tokens |-> parsed.val.total_lp]),
     fetched |-> fetched]

(***************************************************************************)
(* dex/mod.rs: the BaseDex contract, dispatched on the variant.            *)
(***************************************************************************)
\* datum is the answer kupo.datum gives if it is called; fetched is the list
\* of datum hashes it was called with
liquidity_pool_from_utxo(dex, utxo, pool_id, datum) ==
    CASE dex = "MINSWAP" ->
            [res |-> MinswapV1_liquidity_pool_from_utxo(utxo, pool_id), fetched |-> <<>>]
      [] dex = "MINSWAPV2" ->
            [res |-> MinswapV2_liquidity_pool_from_utxo(utxo, pool_id), fetched |-> <<>>]
      [] dex = "SUNDAESWAPV1" ->
            [res |-> SundaeSwapV1_liquidity_pool_from_utxo(utxo, pool_id), fetched |-> <<>>]
      [] dex = "SUNDAESWAPV3" ->
            [res |-> SundaeSwapV3_liquidity_pool_from_utxo(utxo, pool_id), fetched |-> <<>>]
      [] dex = "WINGRIDER" ->
            [res |-> WingRiders_liquidity_pool_from_utxo(utxo, pool_id), fetched |-> <<>>]
      [] dex = "WINGRIDERV2" ->
            [res |-> WingRidersV2_liquidity_pool_from_utxo(utxo, pool_id), fetched |-> <<>>]
      [] dex = "CSWAP" ->
            [res |-> CSwap_liquidity_pool_from_utxo(utxo, pool_id), fetched |-> <<>>]
      [] dex = "VYFINANCE" -> build_pool_from_utxo(utxo, pool_id, datum)

\* MinswapV1 and VyFinance keep the trait's default, a call of
\* liquidity_pool_from_utxo
liquidity_pool_from_utxo_extend(dex, utxo, pool_id, datum) ==
    CASE dex = "MINSWAP" -> liquidity_pool_from_utxo(dex, utxo, pool_id, datum)
      [] dex = "MINSWAPV2" -> MinswapV2_liquidity_pool_from_utxo_extend(utxo, pool_id, datum)
      [] dex = "SUNDAESWAPV1" -> SundaeSwapV1_liquidity_pool_from_utxo_extend(utxo, pool_id, datum)
      [] dex = "SUNDAESWAPV3" -> SundaeSwapV3_liquidity_pool_from_utxo_extend(utxo, pool_id, datum)
      [] dex = "WINGRIDER" -> WingRiders_liquidity_pool_from_utxo_extend(utxo, pool_id, datum)
      [] dex = "WINGRIDERV2" -> WingRidersV2_liquidity_pool_from_utxo_extend(utxo, pool_id, datum)
      [] dex = "CSWAP" -> CSwap_liquidity_pool_from_utxo_extend(utxo, pool_id, datum)
      [] dex = "VYFINANCE" -> liquidity_pool_from_utxo(dex, utxo, pool_id, datum)

(***************************************************************************)
(* The outputs and datums an indexer may serve.                            *)
(*                                                                         *)
(* kupo.rs:104-123: the holdings of an output start with lovelace, and the *)
(* native assets follow, each unit once (they are the keys of one JSON     *)
(* object).  An output holds lovelace and any selection of the units of    *)
(* Universe(dex): the variant's validity asset, its pool-identifying       *)
(* markers and ordinary tokens.                                            *)
(***************************************************************************)
Names == <<"01", "02", "03", "04", "05">>
TokenPolicies == <<"policy_t1", "policy_t2", "policy_t3", "policy_t4", "policy_t5">>
LpPolicies == <<"policy_lp1", "policy_lp2", "policy_lp3", "policy_lp4">>
VyFinance_NFT_POLICY == "policy_vyfi_nft"

\* the i-th token; the name of the third one ends in the two characters of
\* CSwap's LP token name
Token(i) ==
    [policy |-> TokenPolicies[i],
     name |-> IF i = 3 THEN "746f6b" \o CSwap_LP_TOKEN_NAME_HEX ELSE "746f6b"]

\* the j-th unit that identifies a pool of the variant
Marker(dex, j) ==
    CASE dex = "MINSWAP" -> [policy |-> MinswapV1_POOL_NFT_POLICY_ID, name |-> Names[j]]
      [] dex = "MINSWAPV2" -> [policy |-> MinswapV2_LP_TOKEN_POLICY_ID, name |-> Names[j]]
      [] dex = "SUNDAESWAPV1" -> [policy |-> SundaeSwapV1_LP_TOKEN_POLICY_ID, name |-> Names[j]]
      [] dex = "SUNDAESWAPV3" -> [policy |-> SundaeSwapV3_LP_TOKEN_POLICY_ID, name |-> Names[j]]
      [] dex = "WINGRIDER" -> [policy |-> WingRiders_POOL_VALIDITY_POLICY, name |-> Names[j]]
      [] dex = "WINGRIDERV2" -> [policy |-> WingRidersV2_POOL_VALIDITY_POLICY, name |-> Names[j]]
      [] dex = "CSWAP" -> [policy |-> LpPolicies[j], name |-> CSwap_LP_TOKEN_NAME_HEX]
      [] dex = "VYFINANCE" -> [policy |-> VyFinance_NFT_POLICY, name |-> Names[j]]

\* the units the variant excludes without taking them for a pool identifier
ValidityUnits(dex) ==
    CASE dex = "MINSWAP" ->
            <<MinswapV1_POOL_VALIDITY_ASSET_JOINED,
              [policy |-> MinswapV1_LP_TOKEN_POLICY_ID, name |-> Names[1]]>>
      [] dex = "MINSWAPV2" -> <<MinswapV2_POOL_VALIDITY_ASSET>>
      [] dex = "WINGRIDER" -> <<WingRiders_POOL_VALIDITY_ASSET_JOINED>>
      [] dex = "WINGRIDERV2" -> <<WingRidersV2_POOL_VALIDITY_ASSET_JOINED>>
      [] OTHER -> <<>>

\* validity units, the first marker, the tokens, the other markers
Universe(dex) ==
    ValidityUnits(dex)
        \o <<Marker(dex, 1)>>
        \o [i \in 1..MaxTokens |-> Token(i)]
        \o [j \in 1..(MaxMarkers - 1) |-> Marker(dex, j + 1)]

IsMarker(dex, unit) == \E j \in 1..MaxMarkers : unit = Marker(dex, j)
IsToken(unit) == \E i \in 1..MaxTokens : unit = Token(i)

LovelaceQuantities == {2000000, 5000000}
\* the quantity string that does not parse as u64
BadQuantity == -1

QuantityOf(unit) ==
    IF IsToken(unit)
    THEN 1000 * (CHOOSE i \in 1..MaxTokens : unit = Token(i))
    ELSE 1

\* the units of universe whose position is in picked, in the universe's order
RECURSIVE PickUnits(_, _, _)
PickUnits(universe, picked, k) ==
    IF k > Len(universe) THEN <<>>
    ELSE (IF k \in picked THEN <<Unit(universe[k], QuantityOf(universe[k]))>> ELSE <<>>)
            \o PickUnits(universe, picked, k + 1)

\* the holdings: lovelace first, then the picked units; bad > 0 makes the
\* quantity of the holding at that position, if there is one, unparsable
Holdings(dex, coins, picked, bad) ==
    LET amount == <<Unit(LovelaceUnit, coins)>> \o PickUnits(Universe(dex), picked, 1)
    IN [k \in 1..Len(amount) |->
            IF k = bad THEN Unit(amount[k].unit, BadQuantity) ELSE amount[k]]

AllHoldings(dex) ==
    { Holdings(dex, coins, picked, bad) :
        coins \in LovelaceQuantities,
        picked \in SUBSET (1..Len(Universe(dex))),
        bad \in 0..MaxTokens }

(***************************************************************************)
(* The datums of the indexer, by datum hash.  The hash "missing" is one    *)
(* the indexer has no datum for.                                           *)
(***************************************************************************)
AssetConstr(unit) ==
    IF unit = LovelaceUnit
    THEN Constr(0, <<CBytes(""), CBytes("")>>)
    ELSE Constr(0, <<CBytes(unit.policy), CBytes(unit.name)>>)

Nothing == Constr(1, <<>>)

MinswapV2_Datum(asset_a, asset_b, total_lp, reserve_a, reserve_b, base_fee) ==
    Constr(0, <<Constr(0, <<CBytes("validator")>>), AssetConstr(asset_a), AssetConstr(asset_b),
                CInt(total_lp), CInt(reserve_a), CInt(reserve_b), CInt(base_fee)>>)

SundaeSwapV1_Datum(total_lp, numerator, denominator) ==
    Constr(0, <<Constr(0, <<>>), CBytes("ident"), CInt(total_lp),
                Constr(0, <<CInt(numerator), CInt(denominator)>>)>>)

SundaeSwapV3_Datum(total_lp, final_fee, lovelace_deduction) ==
    Constr(0, <<CBytes("ident"), CArray(<<>>), CInt(total_lp), CInt(5), CInt(final_fee),
                Nothing, CInt(0), lovelace_deduction>>)

WingRiders_Datum(treasury_a, treasury_b) ==
    Constr(0, <<CBytes("request"),
                Constr(0, <<Constr(0, <<>>), CInt(7), CInt(treasury_a), CInt(treasury_b)>>)>>)

\* the 21 fields of a WingRidersV2 datum; special is the trailing constructor
WingRidersV2_Datum(fees, treasury_a, treasury_b, project_a, project_b, special) ==
    Constr(0, <<CBytes("request"), CBytes(""), CBytes(""), CBytes("policy_t1"), CBytes("746f6b"),
                CInt(fees[1]), CInt(fees[2]), CInt(fees[3]), CInt(fees[4]),
                CInt(10000), CInt(2000000), CInt(7),
                CInt(treasury_a), CInt(treasury_b), CInt(project_a), CInt(project_b),
                CInt(0), CInt(0), CInt(0), CInt(0), special>>)

CSwap_Datum(total_lp, lp_fee) ==
    Constr(0, <<CInt(total_lp), CInt(lp_fee), CBytes(""), CBytes("")>>)

VyFinance_Datum(bar_fee_a, bar_fee_b, total_lp) ==
    Constr(0, <<CInt(bar_fee_a), CInt(bar_fee_b), CInt(total_lp)>>)

\* what the well-formed order datums of ChadSwap declare: the token, the unit
\* price, the denominator (the constructor of one integer, or the empty
\* constructor of alternative 1 for null) and the remaining amount
OrderFacts ==
    [ok |-> [token |-> Token(1), unit_price |-> 3,
             denominator |-> Constr(0, <<CInt(7)>>), remaining |-> 4000],
     alt |-> [token |-> Token(1), unit_price |-> 5,
              denominator |-> Nothing, remaining |-> 250000000],
     rev |-> [token |-> Token(2), unit_price |-> 2,
              denominator |-> Constr(0, <<CInt(4)>>), remaining |-> 50]]

ChadSwap_Datum(token, unit_price, denominator, remaining) ==
    Constr(0, <<Constr(0, <<Constr(0, <<>>), Constr(0, <<>>),
                            CBytes(token.policy), CBytes(token.name),
                            CInt(unit_price), denominator, Nothing, Nothing>>),
                Constr(0, <<CInt(remaining), CInt(0)>>)>>)

\* ok: a well-formed pool datum; alt: a second well-formed one (a zap pool, a
\* datum whose 21st field is a nonempty constructor, a zero denominator, a
\* negative deduction); rev: a third well-formed one (for MinswapV2 a pool
\* of two tokens declared in the order opposite to the holdings'); short: too
\* few fields; neg: a negative integer where a u64 is expected; garbage: not CBOR
Datums(dex) ==
    CASE dex = "MINSWAPV2" ->
            [ok |-> MinswapV2_Datum(LovelaceUnit, Token(1), 900, 4000000, 800, 30),
             alt |-> MinswapV2_Datum(LovelaceUnit, Marker("MINSWAPV2", 2), 900, 4000000, 800, 30),
             rev |-> MinswapV2_Datum(Token(2), Token(1), 900, 700, 600, 30),
             short |-> Constr(0, <<Nothing, AssetConstr(LovelaceUnit), AssetConstr(Token(1)),
                                   CInt(900), CInt(4000000), CInt(800)>>),
             neg |-> MinswapV2_Datum(LovelaceUnit, Token(1), 900, -4000000, 800, 30),
             garbage |-> Undecodable]
      [] dex = "SUNDAESWAPV1" ->
            [ok |-> SundaeSwapV1_Datum(900, 3, 1000),
             alt |-> SundaeSwapV1_Datum(900, 3, 0),
             rev |-> SundaeSwapV1_Datum(500, 1, 200),
             short |-> Constr(0, <<Nothing, CBytes("ident"), CInt(900)>>),
             neg |-> SundaeSwapV1_Datum(900, -3, 1000),
             garbage |-> Undecodable]
      [] dex = "SUNDAESWAPV3" ->
            [ok |-> SundaeSwapV3_Datum(900, 30, CInt(3000000)),
             alt |-> SundaeSwapV3_Datum(900, 30, CInt(-1500000)),
             \* a deduction of 2^64 - 1
             rev |-> SundaeSwapV3_Datum(900, 30,
                        CWide(1, <<2097151, 2097151, 2097151>>)),
             short |-> Constr(0, <<CBytes("ident"), CArray(<<>>), CInt(900)>>),
             neg |-> SundaeSwapV3_Datum(-900, 30, CInt(0)),
             garbage |-> Undecodable]
      [] dex = "WINGRIDER" ->
            [ok |-> WingRiders_Datum(500000, 300),
             alt |-> Constr(0, <<CBytes("request"),
                        Constr(0, <<Constr(0, <<>>), CInt(7), CInt(500000), CInt(300)>>)>>
                        \o [k \in 1..18 |-> CInt(0)] \o <<Constr(0, <<CInt(1)>>)>>),
             rev |-> WingRiders_Datum(0, 0),
             short |-> Constr(0, <<CBytes("request"), Constr(0, <<Nothing, CInt(7), CInt(5)>>)>>),
             neg |-> WingRiders_Datum(-500000, 300),
             garbage |-> Undecodable]
      [] dex = "WINGRIDERV2" ->
            [ok |-> WingRidersV2_Datum(<<20, 5, 0, 5>>, 500000, 300, 100000, 50, Nothing),
             alt |-> WingRidersV2_Datum(<<20, 5, 0, 5>>, 500000, 300, 100000, 50,
                        Constr(0, <<CInt(1)>>)),
             rev |-> WingRidersV2_Datum(<<30, 10, 5, 5>>, 0, 0, 0, 0, Nothing),
             short |-> Constr(0, <<CBytes("request"), CInt(20), CInt(5)>>),
             neg |-> WingRidersV2_Datum(<<20, -5, 0, 5>>, 500000, 300, 100000, 50, Nothing),
             garbage |-> Undecodable]
      [] dex = "CSWAP" ->
            [ok |-> CSwap_Datum(900, 85),
             alt |-> CSwap_Datum(0, 0),
             rev |-> CSwap_Datum(500, 30),
             short |-> Constr(0, <<CInt(900)>>),
             neg |-> CSwap_Datum(900, -85),
             garbage |-> Undecodable]
      [] dex = "CHADSWAP" ->
            [f \in {"ok", "alt", "rev"} |->
                ChadSwap_Datum(OrderFacts[f].token, OrderFacts[f].unit_price,
                               OrderFacts[f].denominator, OrderFacts[f].remaining)]
            @@ [short |-> Constr(0, <<Constr(0, <<>>)>>),
                neg |-> ChadSwap_Datum(Token(1), 3, Nothing, -4000),
                garbage |-> Undecodable]
      [] OTHER ->
            [ok |-> VyFinance_Datum(500000, 300, 900),
             alt |-> VyFinance_Datum(9000000, 0, 900),
             rev |-> VyFinance_Datum(0, 0, 5),
             short |-> Constr(0, <<CInt(500000), CInt(300)>>),
             neg |-> VyFinance_Datum(500000, -300, 900),
             garbage |-> CInt(5)]

DatumHashes == {"ok", "alt", "rev", "short", "neg", "garbage", "missing"}

AllUtxos(dex) ==
    { Utxo("tx", amount, data_hash) :
        amount \in AllHoldings(dex), data_hash \in DatumHashes \cup {NoHash} }

(***************************************************************************)
(* kupo.rs: KupoApi::datum.  up = FALSE is the indexer failing every       *)
(* attempt of the retry budget; a hash without datum fails in the same way *)
(* ("No datum found" at each attempt).                                     *)
(***************************************************************************)
KupoDatum(dex, hash, up) ==
    IF ~up THEN Err
    ELSE IF hash = "missing" THEN Err
    ELSE Ok(Datums(dex)[hash])

(***************************************************************************)
(* The state.  Each operation of the program is a call that runs to its    *)
(* end; call and query record the last one with its arguments, the answers *)
(* the indexer gave and the result.                                        *)
(***************************************************************************)
NoCall == [op |-> "none"]
NoQuery == [op |-> "none"]
NoLog == [gets |-> <<>>, datums |-> <<>>]
NoFanOut == [kind |-> "none"]

Init ==
    /\ call = NoCall
    /\ query = NoQuery
    /\ indexer = NoLog
    /\ fanout = NoFanOut

\* the pool_id argument of a single-output call: "" as the pair queries pass
\* it, or an identifier as the lookups by id pass it
FallbackIds(dex) == {EmptyId, Marker(dex, 1)}

\* BaseDex::liquidity_pool_from_utxo on one output
CallFromUtxo ==
    /\ call = NoCall
    /\ \E dex \in Variants, up \in BOOLEAN :
       \E utxo \in AllUtxos(dex), pool_id \in FallbackIds(dex) :
         LET r == liquidity_pool_from_utxo(dex, utxo, pool_id,
                        KupoDatum(dex, utxo.data_hash, up))
         IN /\ call' = [op |-> "from_utxo", dex |-> dex, utxo |-> utxo,
                        pool_id |-> pool_id, up |-> up, res |-> r.res]
            /\ indexer' = [indexer EXCEPT !.datums = r.fetched]
    /\ UNCHANGED <<query, fanout>>

\* BaseDex::liquidity_pool_from_utxo_extend on one output
CallExtend ==
    /\ call = NoCall
    /\ \E dex \in Variants, up \in BOOLEAN :
       \E utxo \in AllUtxos(dex), pool_id \in FallbackIds(dex) :
         LET r == liquidity_pool_from_utxo_extend(dex, utxo, pool_id,
                        KupoDatum(dex, utxo.data_hash, up))
         IN /\ call' = [op |-> "extend", dex |-> dex, utxo |-> utxo,
                        pool_id |-> pool_id, up |-> up, res |-> r.res]
            /\ indexer' = [indexer EXCEPT !.datums = r.fetched]
    /\ UNCHANGED <<query, fanout>>

(***************************************************************************)
(* models/asset.rs on the characters of an identifier: an identifier is    *)
(* the sequence of its characters, so that stripping the dots and          *)
(* splitting after the 56th character are what the code does.              *)
(***************************************************************************)
LovelaceChars == <<"l", "o", "v", "e", "l", "a", "c", "e">>

\* Asset::identifier
Asset_identifier(asset, delimiter) == asset.policy_id \o delimiter \o asset.name_hex

\* token_identifier
token_identifier_chars(token) ==
    IF token.kind = "Lovelace" THEN LovelaceChars ELSE Asset_identifier(token, <<>>)

\* from_identifier with the dots left in the identifier
from_identifier_chars_unstripped(id, decimals) ==
    IF id = LovelaceChars \/ id = <<>> THEN Lovelace
    ELSE IF Len(id) < 56 THEN Lovelace
    ELSE Asset(SubSeq(id, 1, 56), SubSeq(id, 57, Len(id)), decimals)

\* from_identifier, and Asset::from_identifier for an id of 56 characters or
\* more (its own replace finds no dot left)
from_identifier_chars(id, decimals) ==
    LET stripped == SelectSeq(id, LAMBDA c: c # ".") IN
    IF stripped = LovelaceChars \/ stripped = <<>> THEN Lovelace
    ELSE IF Len(stripped) < 56 THEN Lovelace
    ELSE Asset(SubSeq(stripped, 1, 56), SubSeq(stripped, 57, Len(stripped)), decimals)

\* the tokens of the round trip: lovelace, and the assets of a policy id of
\* 56 hex characters or of one character less, with no name, a name of one
\* byte or a name of three
TokenCases ==
    {Lovelace} \cup
    {Asset([i \in 1..n |-> IF i % 2 = 0 THEN c ELSE "a"], name, decimals) :
        n \in {55, 56}, c \in {"a", "0"},
        name \in {<<>>, <<"6", "3">>, <<"7", "4", "6", "f", "6", "b">>},
        decimals \in {0, 6}}

\* the identifier of a token, its policy id and its name joined or, with the
\* delimiter ".", set apart by a dot, and the token from_identifier reads back
CallRoundTrip ==
    /\ call = NoCall
    /\ \E token \in TokenCases, delimiter \in {<<>>, <<".">>}, decimals \in {0, 6} :
         \E id \in {IF token.kind = "Lovelace" \/ delimiter = <<>>
                     THEN token_identifier_chars(token)
                     ELSE Asset_identifier(token, delimiter)} :
            call' = [op |-> "round_trip", token |-> token, delimiter |-> delimiter,
                     decimals |-> decimals, id |-> id,
                     res |-> from_identifier_chars(id, decimals)]
    /\ UNCHANGED <<query, indexer, fanout>>

\* the nodes handed to the integer projections: integers small and wide,
\* negative and not, and nodes that are no integer
ValueNodes ==
    {CInt(n) : n \in {-1500000, -1, 0, 1, 250000000}}
    \cup {CWide(w.top, w.low) :
            w \in {w \in {WideInt(top, low) :
                            top \in -2..1,
                            low \in {<<0, 0, 0>>, <<0, 0, 1>>,
                                     <<2097151, 2097151, 2097151>>}} :
                    ~Narrow(w).ok}}
    \cup {CBytes("01"), CArray(<<CInt(1)>>), Constr(0, <<CInt(1)>>), Nothing}

\* a call of value_to_u64 or of value_to_i64 on a node
CallValueToInt ==
    /\ call = NoCall
    /\ \E v \in ValueNodes, op \in {"value_to_u64", "value_to_i64"} :
         call' = [op |-> op, value |-> v,
                  res |-> IF op = "value_to_u64" THEN value_to_u64(v)
                          ELSE value_to_i64(v)]
    /\ UNCHANGED <<query, indexer, fanout>>

NextUtxo == CallFromUtxo \/ CallExtend \/ CallRoundTrip \/ CallValueToInt

SpecUtxo == Init /\ [][NextUtxo]_vars

(***************************************************************************)
(* The whole-query operations: liquidity_pools_from_token (resolve by      *)
(* pair), liquidity_pool_from_pool_id (resolve by id) and the export of    *)
(* all pools.                                                              *)
(*                                                                         *)
(* A snapshot is the list of outputs the indexer holds for the variant.    *)
(* Its outputs: tx_ok, tx_ok2 and tx_alt, lovelace/token-1 pools, the     *)
(* last with the variant's other form of datum; tx_garbage                 *)
(* and tx_missing, lovelace/token-1 pools whose datum is not CBOR or is    *)
(* not served; tx_other, a lovelace/token-2 pool; tx_badqty, a pool with a *)
(* quantity that is no u64; tx_tokens, a token-1/token-2 pool; tx_nohash,  *)
(* an output without datum hash.                                           *)
(***************************************************************************)
PoolAmount(dex, j, tokens, bad) ==
    <<Unit(LovelaceUnit, 5000000)>>
    \o [k \in 1..Len(ValidityUnits(dex)) |-> Unit(ValidityUnits(dex)[k], 1)]
    \o <<Unit(Marker(dex, j), 1)>>
    \o [k \in 1..Len(tokens) |->
            Unit(Token(tokens[k]),
                 IF tokens[k] = bad THEN BadQuantity ELSE QuantityOf(Token(tokens[k])))]

QueryOutputs(dex) ==
    { Utxo("tx_ok", PoolAmount(dex, 1, <<1>>, 0), "ok"),
      Utxo("tx_ok2", PoolAmount(dex, 2, <<1>>, 0), "ok"),
      Utxo("tx_alt", PoolAmount(dex, 2, <<1>>, 0), "alt"),
      Utxo("tx_garbage", PoolAmount(dex, 1, <<1>>, 0), "garbage"),
      Utxo("tx_missing", PoolAmount(dex, 2, <<1>>, 0), "missing"),
      Utxo("tx_other", PoolAmount(dex, 2, <<2>>, 0), "ok"),
      Utxo("tx_badqty", PoolAmount(dex, 1, <<1>>, 1), "ok"),
      Utxo("tx_tokens", PoolAmount(dex, 1, <<1, 2>>, 0), "ok"),
      Utxo("tx_nohash", PoolAmount(dex, 1, <<1>>, 0), NoHash) }

\* lists of at most MaxOutputs different outputs
Snapshots(dex) ==
    UNION { { s \in [1..n -> QueryOutputs(dex)] :
                \A i, j \in 1..n : i # j => s[i] # s[j] } : n \in 0..MaxOutputs }

\* the tokens a pair query asks for
PairTokens == {LovelaceUnit, Token(1), Token(2)}

\* the datum hashes for which kupo.datum fails all its attempts: none, the
\* hash "ok", all of them
Downs == {{}, {"ok"}, DatumHashes}

\* the element of a set of one element: Only({ F(x) : x \in {e} }) is F(e),
\* with e computed once, as a let binding of the code is
Only(S) == CHOOSE x \in S : TRUE

HoldsUnit(utxo, unit) == \E k \in 1..Len(utxo.amount) : utxo.amount[k].unit = unit

\* the pattern of a query for the outputs that hold a unit: "policy.name"
MatchPattern(unit) == unit.policy \o "." \o unit.name

\* KupoApi::get: the matching outputs, or the error left when every attempt
\* of the retry budget has failed (up = FALSE)
KupoGet(utxos, up) == IF up THEN Ok(utxos) ELSE Err

\* all_liquidity_pool_utxos: one query of the indexer, two (one per pool
\* address, joined) for SundaeSwapV3
all_liquidity_pool_utxos(dex, snapshot, get_up) ==
    [res |-> KupoGet(snapshot, get_up),
     gets |-> IF dex = "SUNDAESWAPV3"
              THEN <<"POOL_ADDRESS_V1", "POOL_ADDRESS_V2">>
              ELSE <<"pools">>]

\* comparisons that are not the query's: every record, and the record whose
\* assets are the two tokens in the order asked for
Matches_any(pool, token_a, token_b) == TRUE

Matches_ordered(pool, token_a, token_b) ==
    /\ token_identifier(pool.asset_a) = token_a
    /\ token_identifier(pool.asset_b) = token_b

\* the unordered comparison of a record's pair with the two tokens asked for
Matches(pool, token_a, token_b) ==
    LET id_a == token_identifier(pool.asset_a)
        id_b == token_identifier(pool.asset_b)
    IN \/ (id_a = token_a /\ id_b = token_b)
       \/ (id_a = token_b /\ id_b = token_a)

\* one turn of the loop of liquidity_pools_from_token: a None or a pair that
\* does not match goes on to the next output, an Err of
\* liquidity_pool_from_utxo leaves the function (the ? operator), an Err of
\* the extend is logged and the output skipped.  MinswapV1 pushes the record
\* of liquidity_pool_from_utxo without extending it.
pools_step(dex, acc, utxo, token_a, token_b, down) ==
    LET base == liquidity_pool_from_utxo(dex, utxo, EmptyId, Err).res IN
    IF base.tag = "Err" THEN [acc EXCEPT !.res = Err]
    ELSE IF base.tag = "None" THEN acc
    ELSE IF ~Matches(base.pool, token_a, token_b) THEN acc
    ELSE IF dex = "MINSWAP" THEN [acc EXCEPT !.res = Ok(@.val \o <<base.pool>>)]
    ELSE
    LET ext == liquidity_pool_from_utxo_extend(dex, utxo, base.pool.pool_id,
                    KupoDatum(dex, utxo.data_hash, utxo.data_hash \notin down))
    IN [acc EXCEPT !.res = IF ext.res.tag = "Some" THEN Ok(@.val \o <<ext.res.pool>>)
                             ELSE @,
                   !.datums = @ \o ext.fetched]

\* the loop, from the pools pushed and the indexer calls made so far
RECURSIVE pools_from_utxos(_, _, _, _, _, _)
pools_from_utxos(dex, acc, utxos, token_a, token_b, down) ==
    IF utxos = <<>> \/ ~acc.res.ok THEN acc
    ELSE Only({ pools_from_utxos(dex, next, Tail(utxos), token_a, token_b, down) :
                    next \in {pools_step(dex, acc, Head(utxos), token_a, token_b, down)} })

\* liquidity_pools_from_token of the variants that query the indexer for all
\* their outputs
BaseDex_liquidity_pools_from_token(dex, snapshot, token_a, token_b, get_up, down) ==
    LET all_utxos == all_liquidity_pool_utxos(dex, snapshot, get_up) IN
    IF ~all_utxos.res.ok
    THEN [res |-> Err, gets |-> all_utxos.gets, datums |-> <<>>]
    ELSE pools_from_utxos(dex, [res |-> Ok(<<>>), gets |-> all_utxos.gets, datums |-> <<>>],
                          all_utxos.res.val, token_a, token_b, down)

(***************************************************************************)
(* VyFinance: the candidates come from the listing of the VyFi API, one    *)
(* entry per pool with its units_pair and its pool NFT.  The listing and   *)
(* the chain are separate sources: the entry of tx_other names token 1     *)
(* where the output at its NFT holds token 2, and the entry of tx_nohash   *)
(* has no mainNFT.                                                         *)
(***************************************************************************)
VyFinancePoolData(utxo) ==
    [units_pair |->
        CASE utxo.tx_hash = "tx_tokens" -> <<Token(1), Token(2)>>
          [] utxo.tx_hash = "tx_alt" -> <<Token(1), LovelaceUnit>>
          [] OTHER -> <<LovelaceUnit, Token(1)>>,
     pool_nft_policy_id |->
        IF utxo.tx_hash = "tx_nohash" THEN EmptyId
        ELSE IF HoldsUnit(utxo, Marker("VYFINANCE", 1)) THEN Marker("VYFINANCE", 1)
        ELSE Marker("VYFINANCE", 2)]

\* fetch_all_pool_data: the listing, or the error of the API
fetch_all_pool_data(snapshot, api_up) ==
    IF api_up
    THEN Ok([k \in 1..Len(snapshot) |-> VyFinancePoolData(snapshot[k])])
    ELSE Err

\* the task spawned for a candidate: an entry without NFT spawns none; a
\* failed query of the indexer, no output at the NFT and a None of
\* build_pool_from_utxo give no record.  gets and datums list the indexer
\* calls by task; the tasks run concurrently, so only the calls made are
\* meant, not their order.
VyFinance_pool_task(acc, pool_data, snapshot, get_up, down) ==
    LET nft_id == pool_data.pool_nft_policy_id IN
    IF nft_id = EmptyId THEN acc
    ELSE
    LET utxos == KupoGet(SelectSeq(snapshot, LAMBDA u: HoldsUnit(u, nft_id)), get_up)
        found == IF utxos.ok THEN utxos.val # <<>> ELSE FALSE
    IN
    IF ~found THEN [acc EXCEPT !.gets = @ \o <<MatchPattern(nft_id)>>]
    ELSE
    LET utxo == utxos.val[1]
        built == build_pool_from_utxo(utxo, nft_id,
                    KupoDatum("VYFINANCE", utxo.data_hash, utxo.data_hash \notin down))
    IN [res |-> Ok(acc.res.val
                    \o (IF built.res.tag = "Some" THEN <<built.res.pool>> ELSE <<>>)),
        gets |-> acc.gets \o <<MatchPattern(nft_id)>>,
        datums |-> acc.datums \o built.fetched]

\* the tasks of all the candidates, joined in the order they were spawned
RECURSIVE VyFinance_pool_tasks(_, _, _, _, _)
VyFinance_pool_tasks(acc, pool_datas, snapshot, get_up, down) ==
    IF pool_datas = <<>> THEN acc
    ELSE Only({ VyFinance_pool_tasks(next, Tail(pool_datas), snapshot, get_up, down) :
                    next \in {VyFinance_pool_task(acc, Head(pool_datas), snapshot,
                                                  get_up, down)} })

\* no task joined yet: Ok(pools) with pools empty
NoTasks == [res |-> Ok(<<>>), gets |-> <<>>, datums |-> <<>>]

\* the two lookups in the cache made by structure_pool_data: the entries
\* listed as token_a/token_b, then those listed as token_b/token_a
CacheMatches(pool_datas, token_a, token_b) ==
    SelectSeq(pool_datas, LAMBDA p: p.units_pair = <<token_a, token_b>>)
        \o SelectSeq(pool_datas, LAMBDA p: p.units_pair = <<token_b, token_a>>)

\* the filter of the path without cache: the entries whose units_pair is the
\* pair asked for, in either order
DirectMatches(pool_datas, token_a, token_b) ==
    SelectSeq(pool_datas, LAMBDA p:
        \/ (p.units_pair[1] = token_a /\ p.units_pair[2] = token_b)
        \/ (p.units_pair[1] = token_b /\ p.units_pair[2] = token_a))

\* liquidity_pools_from_token_cached: with a cache, its entries for the pair;
\* without, the listing is fetched and its entries whose units_pair is the
\* pair asked for, in either order, are kept
liquidity_pools_from_token_cached(snapshot, token_a, token_b, cached, api_up, get_up, down) ==
    LET all == fetch_all_pool_data(snapshot, IF cached THEN TRUE ELSE api_up) IN
    IF ~all.ok THEN [res |-> Err, gets |-> <<>>, datums |-> <<>>]
    ELSE
    LET pool_datas ==
            IF cached THEN CacheMatches(all.val, token_a, token_b)
            ELSE DirectMatches(all.val, token_a, token_b)
    IN VyFinance_pool_tasks(NoTasks, pool_datas, snapshot, get_up, down)

\* BaseDex::liquidity_pools_from_token; VyFinance's passes no cache
liquidity_pools_from_token(dex, snapshot, token_a, token_b, cached, api_up, get_up, down) ==
    IF dex = "VYFINANCE"
    THEN liquidity_pools_from_token_cached(snapshot, token_a, token_b, cached, api_up,
                                           get_up, down)
    ELSE BaseDex_liquidity_pools_from_token(dex, snapshot, token_a, token_b, get_up, down)

(***************************************************************************)
(* liquidity_pool_from_pool_id.  An identifier is given with the variant's *)
(* policy id in front or without it.                                       *)
(***************************************************************************)
PoolIds(dex) ==
    { Marker(dex, j) : j \in 1..2 } \cup { [policy |-> "", name |-> Names[j]] : j \in 1..2 }

\* the identifier as it was given
full_id_as_given(dex, pool_id) == pool_id

\* pool_id.starts_with(POLICY) keeps the identifier, else the policy id is
\* put in front of it
full_id(dex, pool_id) ==
    IF dex \in {"CSWAP", "VYFINANCE"} THEN pool_id
    ELSE IF pool_id.policy = Marker(dex, 1).policy THEN pool_id
    ELSE [policy |-> Marker(dex, 1).policy, name |-> pool_id.name]

liquidity_pool_from_pool_id(dex, snapshot, pool_id, get_up, down) ==
    LET id == full_id(dex, pool_id)
        holders == SelectSeq(snapshot, LAMBDA u: HoldsUnit(u, id))
    IN
    IF dex \in {"MINSWAP", "VYFINANCE"}
    THEN
        \* kupo.get of the identifier, then its first output
        LET utxos == KupoGet(holders, get_up) IN
        IF ~utxos.ok THEN [res |-> ErrPool, gets |-> <<MatchPattern(id)>>, datums |-> <<>>]
        ELSE IF utxos.val = <<>> THEN [res |-> NonePool, gets |-> <<MatchPattern(id)>>, datums |-> <<>>]
        ELSE
        LET utxo == utxos.val[1]
            r == liquidity_pool_from_utxo(dex, utxo, IF dex = "MINSWAP" THEN id ELSE pool_id,
                    KupoDatum(dex, utxo.data_hash, utxo.data_hash \notin down))
        IN [res |-> r.res, gets |-> <<MatchPattern(id)>>, datums |-> r.fetched]
    ELSE
        \* all the outputs of the variant, then the first that holds the unit
        LET all_utxos == all_liquidity_pool_utxos(dex, snapshot, get_up) IN
        IF ~all_utxos.res.ok THEN [res |-> ErrPool, gets |-> all_utxos.gets, datums |-> <<>>]
        ELSE IF holders = <<>> THEN [res |-> NonePool, gets |-> all_utxos.gets, datums |-> <<>>]
        ELSE
        LET utxo == holders[1]
            r == liquidity_pool_from_utxo_extend(dex, utxo, id,
                    KupoDatum(dex, utxo.data_hash, utxo.data_hash \notin down))
        IN [res |-> r.res, gets |-> all_utxos.gets, datums |-> r.fetched]

(***************************************************************************)
(* main.rs: the export of all pools.                                       *)
(***************************************************************************)
pool_to_export(pool, tx_hash) ==
    [dex |-> pool.dex_identifier,
     pool_id |-> pool.pool_id,
     asset_a |-> token_identifier(pool.asset_a),
     asset_b |-> token_identifier(pool.asset_b),
     reserve_a |-> pool.reserve_a,
     reserve_b |-> pool.reserve_b,
     pool_fee_percent |-> pool.pool_fee_percent,
     total_lp_tokens |-> pool.total_lp_tokens,
     tx_hash |-> tx_hash]

\* a.pool_id.cmp(&b.pool_id) on the identifiers of the model: "" is before
\* any other, then the order of the policy ids and of the names
PoolIdLess(a, b) ==
    LET idx(seq, x) == IF \E k \in 1..Len(seq) : seq[k] = x
                       THEN CHOOSE k \in 1..Len(seq) : seq[k] = x ELSE 0
        pa == idx(LpPolicies, a.policy)
        pb == idx(LpPolicies, b.policy)
        na == idx(Names, a.name)
        nb == idx(Names, b.name)
    IN IF a = b THEN FALSE
       ELSE IF a = EmptyId THEN TRUE
       ELSE IF b = EmptyId THEN FALSE
       ELSE pa < pb \/ (pa = pb /\ na < nb)

\* the place of a record in a sorted list: after the records that are less,
\* before the others
sort_insert(pool, sorted) ==
    SelectSeq(sorted, LAMBDA p: PoolIdLess(p.pool_id, pool.pool_id))
        \o <<pool>>
        \o SelectSeq(sorted, LAMBDA p: ~PoolIdLess(p.pool_id, pool.pool_id))

\* Vec::sort_by, a stable sort
RECURSIVE sort_by_pool_id(_)
sort_by_pool_id(pools) ==
    IF pools = <<>> THEN <<>>
    ELSE sort_insert(Head(pools), sort_by_pool_id(Tail(pools)))

\* the task of export_all for one output: an Err of either stage is logged
\* and the output counts as skipped
export_task(dex, acc, utxo, down) ==
    LET base == liquidity_pool_from_utxo(dex, utxo, EmptyId, Err).res IN
    IF base.tag # "Some" THEN acc
    ELSE
    LET ext == liquidity_pool_from_utxo_extend(dex, utxo, base.pool.pool_id,
                    KupoDatum(dex, utxo.data_hash, utxo.data_hash \notin down))
    IN [acc EXCEPT !.res = Ok(@.val \o (IF ext.res.tag = "Some"
                                        THEN <<pool_to_export(ext.res.pool, utxo.tx_hash)>>
                                        ELSE <<>>)),
                   !.datums = @ \o ext.fetched]

\* the tasks of all the outputs, joined in the order they were spawned
RECURSIVE export_tasks(_, _, _, _)
export_tasks(dex, acc, utxos, down) ==
    IF utxos = <<>> THEN acc
    ELSE Only({ export_tasks(dex, next, Tail(utxos), down) :
                    next \in {export_task(dex, acc, Head(utxos), down)} })

\* export_all: the list written to the file, or the error of the bulk query
export_all(dex, snapshot, get_up, down) ==
    LET all_utxos == all_liquidity_pool_utxos(dex, snapshot, get_up) IN
    IF ~all_utxos.res.ok THEN [res |-> Err, gets |-> all_utxos.gets, datums |-> <<>>]
    ELSE [export_tasks(dex, [res |-> Ok(<<>>), gets |-> all_utxos.gets, datums |-> <<>>],
                       all_utxos.res.val, down)
            EXCEPT !.res = Ok(sort_by_pool_id(@.val))]

\* the orders in which the nested map of structure_pool_data may give its
\* entries back: the entries of one first token stay together, those of one
\* pair stay together and in the order of the listing
CacheOrders(pool_datas) ==
    LET n == Len(pool_datas)
        first(k) == pool_datas[k].units_pair[1]
        pair(k) == pool_datas[k].units_pair
    IN { order \in [1..n -> 1..n] :
            /\ \A i, j \in 1..n : i # j => order[i] # order[j]
            /\ \A i, j, k \in 1..n :
                  i < k /\ k < j =>
                    /\ first(order[i]) = first(order[j]) => first(order[k]) = first(order[i])
                    /\ pair(order[i]) = pair(order[j]) => pair(order[k]) = pair(order[i])
            /\ \A i, j \in 1..n :
                  i < j /\ pair(order[i]) = pair(order[j]) => order[i] < order[j] }

\* VyFinance::all_liquidity_pools: a task for every entry of the listing
all_liquidity_pools(snapshot, order, api_up, get_up, down) ==
    LET all == fetch_all_pool_data(snapshot, api_up) IN
    IF ~all.ok THEN [res |-> Err, gets |-> <<>>, datums |-> <<>>]
    ELSE
    LET pool_datas == [k \in 1..Len(all.val) |-> all.val[order[k]]]
    IN VyFinance_pool_tasks(NoTasks, pool_datas, snapshot, get_up, down)

export_all_vyfinance(snapshot, order, api_up, get_up, down) ==
    [all_liquidity_pools(snapshot, order, api_up, get_up, down) EXCEPT !.res =
        IF @.ok
        THEN Ok(sort_by_pool_id([k \in 1..Len(@.val) |-> pool_to_export(@.val[k], "")]))
        ELSE @]

(***************************************************************************)
(* The operations on a snapshot of the indexer.                            *)
(***************************************************************************)
\* the cache and the VyFi API are VyFinance's alone
ApiCases(dex) ==
    IF dex = "VYFINANCE"
    THEN {[cached |-> FALSE, api_up |-> TRUE], [cached |-> FALSE, api_up |-> FALSE],
          [cached |-> TRUE, api_up |-> TRUE]}
    ELSE {[cached |-> FALSE, api_up |-> TRUE]}

\* resolve by pair: run and fetch_pair of main.rs on liquidity_pools_from_token
ResolveByPair ==
    /\ query = NoQuery
    /\ \E dex \in Variants, get_up \in BOOLEAN, down \in Downs :
       \E snapshot \in Snapshots(dex), token_a \in PairTokens, token_b \in PairTokens,
          api \in ApiCases(dex) :
         \E r \in {liquidity_pools_from_token(dex, snapshot, token_a, token_b,
                        api.cached, api.api_up, get_up, down)} :
            /\ query' = [op |-> "by_pair", dex |-> dex, snapshot |-> snapshot,
                         token_a |-> token_a, token_b |-> token_b,
                         cached |-> api.cached, api_up |-> api.api_up,
                         get_up |-> get_up, down |-> down, res |-> r.res]
            /\ indexer' = [gets |-> r.gets, datums |-> r.datums]
    /\ UNCHANGED <<call, fanout>>

\* resolve by id: liquidity_pool_from_pool_id
ResolveById ==
    /\ query = NoQuery
    /\ \E dex \in Variants, get_up \in BOOLEAN, down \in Downs :
       \E snapshot \in Snapshots(dex), pool_id \in PoolIds(dex) :
         \E r \in {liquidity_pool_from_pool_id(dex, snapshot, pool_id, get_up, down)} :
            /\ query' = [op |-> "by_id", dex |-> dex, snapshot |-> snapshot,
                         pool_id |-> pool_id, get_up |-> get_up, down |-> down,
                         res |-> r.res]
            /\ indexer' = [gets |-> r.gets, datums |-> r.datums]
    /\ UNCHANGED <<call, fanout>>

\* export of all pools: export_all, and export_all_vyfinance for VyFinance
ExportAll ==
    /\ query = NoQuery
    /\ \E dex \in Variants, get_up \in BOOLEAN, down \in Downs :
       \E snapshot \in Snapshots(dex), api_up \in BOOLEAN :
         /\ dex # "VYFINANCE" => api_up
         /\ \E order \in (IF dex = "VYFINANCE"
                          THEN CacheOrders(fetch_all_pool_data(snapshot, TRUE).val)
                          ELSE {<<>>}) :
              \E r \in {IF dex = "VYFINANCE"
                        THEN export_all_vyfinance(snapshot, order, api_up, get_up, down)
                        ELSE export_all(dex, snapshot, get_up, down)} :
                 /\ query' = [op |-> "export", dex |-> dex, snapshot |-> snapshot,
                              api_up |-> api_up, get_up |-> get_up, down |-> down,
                              res |-> r.res]
                 /\ indexer' = [gets |-> r.gets, datums |-> r.datums]
    /\ UNCHANGED <<call, fanout>>

(***************************************************************************)
(* dex/chadswap.rs: the order book.                                        *)
(***************************************************************************)
\* the denominator read as absent whatever the field holds
parse_price_denominator_null(v) == Ok(<<>>)

\* Option<u64> as a sequence of no or one integer
parse_price_denominator(v) ==
    LET fields == constr_fields(v) IN
    IF ~fields.ok THEN Err
    ELSE IF fields.val = <<>> THEN Ok(<<>>)
    ELSE LET denom == value_to_u64(fields.val[1]) IN
         IF ~denom.ok THEN Err ELSE Ok(<<denom.val>>)

parse_order_datum(cbor_hex) ==
    LET value == decode_cbor(cbor_hex) IN
    IF ~value.ok THEN Err ELSE
    LET outer == constr_fields(value.val) IN
    IF ~outer.ok THEN Err
    ELSE IF Len(outer.val) < 2 THEN Err
    ELSE
    LET info == constr_fields(outer.val[1]) IN
    IF ~info.ok THEN Err
    ELSE IF Len(info.val) < 6 THEN Err
    ELSE
    LET token_policy_id == value_to_hex(info.val[3])
        token_asset_name == value_to_hex(info.val[4])
        unit_price == value_to_u64(info.val[5])
        unit_price_denominator == parse_price_denominator(info.val[6])
        state == constr_fields(outer.val[2])
    IN IF ~token_policy_id.ok \/ ~token_asset_name.ok \/ ~unit_price.ok
          \/ ~unit_price_denominator.ok \/ ~state.ok
       THEN Err
       ELSE IF state.val = <<>> THEN Err
       ELSE LET remaining_amount == value_to_u64(state.val[1]) IN
            IF ~remaining_amount.ok THEN Err
            ELSE Ok([token_policy_id |-> token_policy_id.val,
                     token_asset_name |-> token_asset_name.val,
                     unit_price |-> unit_price.val,
                     unit_price_denominator |-> unit_price_denominator.val,
                     remaining_amount |-> remaining_amount.val])

\* Ok(Some(order)), Ok(None) or Err, with the datum hashes asked for
order_from_utxo(utxo, datum) ==
    IF utxo.data_hash = NoHash THEN [res |-> [tag |-> "None"], fetched |-> <<>>]
    ELSE
    LET fetched == <<utxo.data_hash>> IN
    IF ~datum.ok THEN [res |-> [tag |-> "Err"], fetched |-> fetched]
    ELSE
    LET parsed == parse_order_datum(datum.val) IN
    IF ~parsed.ok THEN [res |-> [tag |-> "Err"], fetched |-> fetched]
    ELSE
    LET d == parsed.val IN
    [res |-> [tag |-> "Some",
              order |-> [asset |-> from_identifier(
                                [policy |-> d.token_policy_id,
                                 name |-> d.token_asset_name], 0),
                         amount |-> d.remaining_amount,
                         price |-> d.unit_price,
                         price_denominator |->
                            IF d.unit_price_denominator = <<>> THEN 1
                            ELSE d.unit_price_denominator[1],
                         is_buy |-> Len(utxo.amount) = 1]],
     fetched |-> fetched]

\* the body of the loop of get_orders_by_token: an output with no order or
\* with an error is skipped, an order of another token too
orders_step(acc, utxo, token_id, down) ==
    LET r == order_from_utxo(utxo,
                KupoDatum("CHADSWAP", utxo.data_hash, utxo.data_hash \notin down))
        mine == IF r.res.tag = "Some"
                THEN token_identifier(r.res.order.asset) = token_id ELSE FALSE
    IN [acc EXCEPT
            !.res = Ok([@.val EXCEPT
                    !.buy_orders = IF mine /\ r.res.order.is_buy
                                   THEN Append(@, r.res.order) ELSE @,
                    !.sell_orders = IF mine /\ ~r.res.order.is_buy
                                    THEN Append(@, r.res.order) ELSE @]),
            !.datums = @ \o r.fetched]

RECURSIVE orders_from_utxos(_, _, _, _)
orders_from_utxos(acc, utxos, token_id, down) ==
    IF utxos = <<>> THEN acc
    ELSE Only({ orders_from_utxos(next, Tail(utxos), token_id, down) :
                    next \in {orders_step(acc, Head(utxos), token_id, down)} })

\* all_order_utxos asks for the outputs of the two order addresses and fails
\* when either query does
get_orders_by_token(snapshot, token_id, get_up, down) ==
    LET utxos == KupoGet(snapshot, get_up)
        gets == <<"ORDER_ADDRESS_1", "ORDER_ADDRESS_2">>
    IN IF ~utxos.ok THEN [res |-> Err, gets |-> gets, datums |-> <<>>]
       ELSE orders_from_utxos(
                [res |-> Ok([token_id |-> token_id, buy_orders |-> <<>>,
                             sell_orders |-> <<>>]),
                 gets |-> gets, datums |-> <<>>],
                utxos.val, token_id, down)

\* the outputs at the order addresses: lovelace alone or lovelace and a token,
\* with any datum hash or none
OrderOutputs ==
    { Utxo("tx", amount, data_hash) :
        amount \in {<<Unit(LovelaceUnit, 5000000)>>,
                    <<Unit(LovelaceUnit, 2000000), Unit(Token(1), 1000)>>},
        data_hash \in DatumHashes \cup {NoHash} }

GetOrdersByToken ==
    /\ query = NoQuery
    /\ \E get_up \in BOOLEAN, down \in Downs, token_id \in {Token(1), Token(2)},
          n \in 0..MaxOutputs :
         \E snapshot \in [1..n -> OrderOutputs] :
           \E r \in {get_orders_by_token(snapshot, token_id, get_up, down)} :
             /\ query' = [op |-> "orders", snapshot |-> snapshot, token_id |-> token_id,
                          get_up |-> get_up, down |-> down, res |-> r.res]
             /\ indexer' = [gets |-> r.gets, datums |-> r.datums]
    /\ UNCHANGED <<call, fanout>>

\* length of a listing of the VyFinance API
MaxListing == 3

\* the listings of the API: entries of any pair of two tokens, the two of
\* one entry being the same token as well
Listings ==
    LET entries == {[units_pair |-> <<Token(i), Token(j)>>,
                     pool_nft_policy_id |-> Marker("VYFINANCE", m)] :
                        i \in 1..2, j \in 1..2, m \in 1..MaxMarkers}
    IN UNION {[1..n -> entries] : n \in 0..MaxListing}

\* the candidates of a pair as liquidity_pools_from_token_cached selects them,
\* from the cache made of a listing and from the listing itself
SelectCandidates ==
    /\ query = NoQuery
    /\ \E data \in Listings, a \in 1..2, b \in 1..2 :
         query' = [op |-> "select", data |-> data,
                   token_a |-> Token(a), token_b |-> Token(b),
                   cached |-> CacheMatches(data, Token(a), Token(b)),
                   direct |-> DirectMatches(data, Token(a), Token(b))]
    /\ UNCHANGED <<call, indexer, fanout>>

Next == ResolveByPair \/ ResolveById \/ ExportAll \/ GetOrdersByToken \/ SelectCandidates

Spec == Init /\ [][Next]_vars

(***************************************************************************)
(* The fan-outs, task by task: export_all (main.rs), and VyFinance's       *)
(* all_liquidity_pools behind export_all_vyfinance and                     *)
(* liquidity_pools_from_token_cached (dex/vyfinance.rs).  Each spawns one  *)
(* task per candidate; a task holds a permit of a semaphore from its first *)
(* step to its return, and the spawning function awaits the handles in the *)
(* order it spawned them.  What a task computes for its output is the      *)
(* record of the whole-query model above, here its pool identifier only.   *)
(***************************************************************************)
CONCURRENCY == 5

MaxTasks == 6

FanOutKinds == {"export_all", "export_all_vyfinance", "liquidity_pools_from_token_cached"}

\* the k-th pool identifier in the order of PoolIdLess
TaskPoolId(k) ==
    [policy |-> LpPolicies[((k - 1) \div Len(Names)) + 1],
     name |-> Names[((k - 1) % Len(Names)) + 1]]

\* what the outputs of the candidates reconstruct to, task by task: records in
\* increasing order of identifier, in decreasing order, in decreasing order
\* with every other one missing, or no record at all
TaskResults(total) ==
    {[i \in 1..total |-> SomePool([pool_id |-> TaskPoolId(i)])],
     [i \in 1..total |-> SomePool([pool_id |-> TaskPoolId(total + 1 - i)])],
     [i \in 1..total |-> IF i % 2 = 1 THEN NonePool
                         ELSE SomePool([pool_id |-> TaskPoolId(total + 1 - i)])],
     [i \in 1..total |-> NonePool]}

InitFanOut ==
    /\ call = NoCall
    /\ query = NoQuery
    /\ indexer = NoLog
    /\ \E kind \in FanOutKinds, total \in 1..MaxTasks :
         \E result \in TaskResults(total) :
            fanout = [kind |-> kind, total |-> total, result |-> result,
                      pc |-> [i \in 1..total |-> "spawned"],
                      permits |-> CONCURRENCY, done |-> 0, skipped |-> 0,
                      awaited |-> 0, pools |-> <<>>, finished |-> FALSE,
                      report |-> <<>>]

\* a permit is handed out whatever the semaphore holds
acquire_ready_always(permits) == TRUE

\* Semaphore::acquire completes when the semaphore holds a permit
acquire_ready(permits) == permits > 0

\* no result counts as missing
result_is_none_never(result) == FALSE

\* result.is_none()
result_is_none(result) == result.tag # "Some"

\* let _permit = sem.acquire().await.unwrap()
Acquire(i) ==
    /\ fanout.pc[i] = "spawned"
    /\ acquire_ready(fanout.permits)
    /\ fanout' = [fanout EXCEPT !.pc[i] = "running", !.permits = @ - 1]
    /\ UNCHANGED <<call, query, indexer>>

\* the two stages of export_all's task, then done.fetch_add(1)
FetchAddDone(i) ==
    /\ fanout.kind = "export_all"
    /\ fanout.pc[i] = "running"
    /\ fanout' = [fanout EXCEPT !.pc[i] = "counted", !.done = @ + 1]
    /\ UNCHANGED <<call, query, indexer>>

\* if result.is_none() { skipped.fetch_add(1) }
FetchAddSkipped(i) ==
    /\ fanout.pc[i] = "counted"
    /\ result_is_none(fanout.result[i])
    /\ fanout' = [fanout EXCEPT !.pc[i] = "counted_skipped", !.skipped = @ + 1]
    /\ UNCHANGED <<call, query, indexer>>

\* the permit is kept by the task that has ended
add_permit_forgotten(permits) == permits

\* drop(_permit): the permit goes back to the semaphore
add_permit(permits) == permits + 1

\* the task returns its result and its permit is dropped
Return(i) ==
    /\ \/ fanout.kind # "export_all" /\ fanout.pc[i] = "running"
       \/ fanout.pc[i] = "counted" /\ ~result_is_none(fanout.result[i])
       \/ fanout.pc[i] = "counted_skipped"
    /\ fanout' = [fanout EXCEPT !.pc[i] = "returned",
                                !.permits = add_permit(fanout.permits)]
    /\ UNCHANGED <<call, query, indexer>>

\* for handle in handles { if let Ok(Some(pool)) = handle.await { pools.push(pool) } }
Await ==
    /\ fanout.kind \in FanOutKinds
    /\ fanout.awaited < fanout.total
    /\ fanout.pc[fanout.awaited + 1] = "returned"
    /\ fanout' = [fanout EXCEPT
            !.awaited = @ + 1,
            !.pools = IF fanout.result[fanout.awaited + 1].tag = "Some"
                      THEN Append(@, fanout.result[fanout.awaited + 1].pool)
                      ELSE @]
    /\ UNCHANGED <<call, query, indexer>>

\* after the last handle: the two exports sort their records and report the
\* numbers of exported and skipped outputs, the pair query returns the
\* records as collected
Finish ==
    /\ fanout.kind \in FanOutKinds
    /\ fanout.awaited = fanout.total
    /\ ~fanout.finished
    /\ fanout' = [fanout EXCEPT
            !.finished = TRUE,
            !.pools = IF fanout.kind = "liquidity_pools_from_token_cached" THEN @
                      ELSE sort_by_pool_id(@),
            !.report = CASE fanout.kind = "export_all" ->
                                <<Len(fanout.pools), fanout.total - Len(fanout.pools)>>
                         [] fanout.kind = "export_all_vyfinance" -> <<Len(fanout.pools)>>
                         [] OTHER -> <<>>]
    /\ UNCHANGED <<call, query, indexer>>

NextFanOut ==
    \/ \E i \in 1..MaxTasks :
          /\ fanout.kind \in FanOutKinds
          /\ i <= fanout.total
          /\ (Acquire(i) \/ FetchAddDone(i) \/ FetchAddSkipped(i) \/ Return(i))
    \/ Await
    \/ Finish

SpecFanOut == InitFanOut /\ [][NextFanOut]_vars

\* the runtime polls every task that can go on and the semaphore wakes a
\* waiting task when a permit comes back; every indexer call returns
SpecFanOutFair == SpecFanOut /\ WF_vars(NextFanOut)

(***************************************************************************)
(* main.rs export_all, the counters of the progress line.  The tasks run   *)
(* on the worker threads of the runtime, so the steps of one task on the   *)
(* shared counters interleave with those of the others.  Tasks of the same *)
(* result are interchangeable and are counted; a task keeps its d only     *)
(* when d makes it print.  Of a pair <<none, some>> the first counts the   *)
(* tasks whose result is None.                                             *)
(***************************************************************************)
PROGRESS_EVERY == 10
MaxProgressTasks == 11

InitProgress ==
    /\ call = NoCall
    /\ query = NoQuery
    /\ indexer = NoLog
    /\ \E total \in 1..MaxProgressTasks :
         \E nones \in 0..total :
            fanout = [kind |-> "export_all_progress", total |-> total,
                      spawned |-> <<nones, total - nones>>, running |-> <<0, 0>>,
                      counted_none |-> 0, printers |-> {}, leaving |-> 0,
                      permits |-> CONCURRENCY, done |-> 0, skipped |-> 0,
                      returned |-> 0, printed |-> {}]

\* let _permit = sem.acquire().await.unwrap(), and the result is computed
ProgressAcquire(c) ==
    /\ fanout.spawned[c] > 0
    /\ acquire_ready(fanout.permits)
    /\ fanout' = [fanout EXCEPT !.spawned[c] = @ - 1, !.running[c] = @ + 1,
                                !.permits = @ - 1]
    /\ UNCHANGED <<call, query, indexer>>

\* let d = done.fetch_add(1) + 1
ProgressFetchAddDone(c) ==
    /\ fanout.running[c] > 0
    /\ \E d \in {fanout.done + 1} :
         \E prints \in {d % PROGRESS_EVERY = 0 \/ d = fanout.total} :
            fanout' = [fanout EXCEPT
                !.running[c] = @ - 1,
                !.done = d,
                !.printers = IF prints
                             THEN @ \cup {[d |-> d, none |-> (c = 1), pc |-> "counted"]}
                             ELSE @,
                !.counted_none = IF ~prints /\ c = 1 THEN @ + 1 ELSE @,
                !.leaving = IF ~prints /\ c = 2 THEN @ + 1 ELSE @]
    /\ UNCHANGED <<call, query, indexer>>

\* if result.is_none() { skipped.fetch_add(1) }, of a task that does not
\* print and of one that does
ProgressFetchAddSkipped ==
    /\ \/ /\ fanout.counted_none > 0
          /\ fanout' = [fanout EXCEPT !.counted_none = @ - 1, !.leaving = @ + 1,
                                      !.skipped = @ + 1]
       \/ \E p \in fanout.printers :
          /\ p.none /\ p.pc = "counted"
          /\ fanout' = [fanout EXCEPT
                !.printers = (@ \ {p}) \cup {[p EXCEPT !.pc = "added"]},
                !.skipped = @ + 1]
    /\ UNCHANGED <<call, query, indexer>>

\* let s = skipped.load(), and d - s is evaluated for the progress line
ProgressLoadSkipped ==
    /\ \E p \in fanout.printers :
          /\ p.pc = IF p.none THEN "added" ELSE "counted"
          /\ fanout' = [fanout EXCEPT
                !.printers = @ \ {p},
                !.printed = @ \cup {<<p.d, fanout.skipped>>},
                !.leaving = @ + 1]
    /\ UNCHANGED <<call, query, indexer>>

\* the task returns its result and the permit is dropped
ProgressReturn ==
    /\ fanout.leaving > 0
    /\ fanout' = [fanout EXCEPT !.leaving = @ - 1, !.permits = @ + 1,
                                !.returned = @ + 1]
    /\ UNCHANGED <<call, query, indexer>>

NextProgress ==
    \/ \E c \in {1, 2} : ProgressAcquire(c) \/ ProgressFetchAddDone(c)
    \/ ProgressFetchAddSkipped
    \/ ProgressLoadSkipped
    \/ ProgressReturn

SpecProgress == InitProgress /\ [][NextProgress]_vars

(***************************************************************************)
(* utils/mod.rs: retry, step by step.  The record of the call holds the    *)
(* locals retries and attempt, the results f has returned so far, the      *)
(* delays slept and, once it has returned, the result.                     *)
(***************************************************************************)
KUPO_RETRIES == 10
KUPO_BASE_DELAY_MS == 1000
MaxRetries == 2

\* Ok(result) and Err(e) as f returns them
FResults ==
    {[ok |-> TRUE, val |-> "utxos"], [ok |-> FALSE, val |-> "rate_limited"],
     [ok |-> FALSE, val |-> "No datum found"]}

\* KupoApi::get and KupoApi::datum call retry(10, 1000, ..)
InitRetry ==
    /\ query = NoQuery
    /\ indexer = NoLog
    /\ fanout = NoFanOut
    /\ \E n \in (0..MaxRetries) \cup {KUPO_RETRIES},
          base \in {0, KUPO_BASE_DELAY_MS, 2 * KUPO_BASE_DELAY_MS} :
         call = [op |-> "retry", n |-> n, base_delay_ms |-> base,
                 retries |-> n, attempt |-> 0, pc |-> "invoke",
                 results |-> <<>>, delays |-> <<>>, res |-> <<>>]

\* one failure less is allowed than was asked for
retries_spent_early(retries) == retries <= 1

\* the guard retries == 0 of the first Err arm
retries_spent(retries) == retries = 0

\* (base_delay_ms * (1u64 << attempt.min(5))).min(30_000)
backoff_delay(base_delay_ms, attempt) ==
    LET min(a, b) == IF a < b THEN a ELSE b
    IN min(base_delay_ms * 2^min(attempt, 5), 30000)

\* match f().await: return on Ok, return the error when no retry is left,
\* otherwise go to sleep
RetryInvoke ==
    /\ call.op = "retry" /\ call.pc = "invoke"
    /\ \E r \in FResults :
         call' = [call EXCEPT
            !.results = Append(@, r),
            !.pc = IF r.ok \/ retries_spent(call.retries) THEN "returned" ELSE "sleep",
            !.res = IF r.ok \/ retries_spent(call.retries) THEN <<r>> ELSE @]
    /\ UNCHANGED <<query, indexer, fanout>>

\* the sleep is over: retries -= 1; attempt += 1 and the loop starts again
RetrySleep ==
    /\ call.op = "retry" /\ call.pc = "sleep"
    /\ call' = [call EXCEPT
            !.delays = Append(@, backoff_delay(call.base_delay_ms, call.attempt)),
            !.retries = @ - 1,
            !.attempt = @ + 1,
            !.pc = "invoke"]
    /\ UNCHANGED <<query, indexer, fanout>>

NextRetry == RetryInvoke \/ RetrySleep

SpecRetry == InitRetry /\ [][NextRetry]_vars

\* f is a request with a timeout and the sleep a timer of the runtime: a
\* step that can be taken is taken
SpecRetryFair == SpecRetry /\ WF_vars(NextRetry)

(***************************************************************************)
(* dex/sundaeswap_v3.rs all_liquidity_pool_utxos and dex/chadswap.rs       *)
(* all_order_utxos: try_join! of the queries of two addresses.  try_join!  *)
(* polls both futures; it returns the first Err a future resolves to,      *)
(* dropping the other future, and returns the pair once both are Ok.       *)
(***************************************************************************)
\* what the indexer answers for an address: its outputs in its order, or,
\* every attempt having failed, an error
AddressAnswers(k) ==
    IF k = 1 THEN {Ok(<<>>), Ok(<<"a1">>), Ok(<<"a2", "a1">>), Err}
    ELSE {Ok(<<>>), Ok(<<"b1">>), Ok(<<"b1", "b2">>), Ok(<<"a1">>), Err}

InitJoin ==
    /\ query = NoQuery
    /\ indexer = NoLog
    /\ fanout = NoFanOut
    /\ \E who \in {"all_liquidity_pool_utxos", "all_order_utxos"},
          first \in AddressAnswers(1), second \in AddressAnswers(2) :
         call = [op |-> "try_join", who |-> who, answer |-> <<first, second>>,
                 resolved |-> {}, returned |-> FALSE, res |-> <<>>]

\* the second list in front of the first
extend_in_front(a, b) == b \o a

\* a.extend(b)
extend(a, b) == a \o b

\* the future of the k-th address resolves, and try_join! with it when it is
\* an Err or the second Ok
Resolve(k) ==
    /\ call.op = "try_join" /\ ~call.returned
    /\ k \notin call.resolved
    /\ call' = [call EXCEPT
            !.resolved = @ \cup {k},
            !.returned = ~call.answer[k].ok \/ call.resolved # {},
            !.res = IF ~call.answer[k].ok THEN <<Err>>
                    ELSE IF call.resolved # {}
                    THEN <<Ok(extend(call.answer[1].val, call.answer[2].val))>>
                    ELSE @]
    /\ UNCHANGED <<query, indexer, fanout>>

NextJoin == \E k \in {1, 2} : Resolve(k)

SpecJoin == InitJoin /\ [][NextJoin]_vars

(***************************************************************************)
(* The holdings a variant's liquidity_pool_from_utxo keeps: those left     *)
(* after its filter has excluded the validity, LP and NFT units.           *)
(***************************************************************************)
Excluded(dex, unit, pool_id) ==
    CASE dex = "MINSWAP" ->
            \/ unit = MinswapV1_POOL_VALIDITY_ASSET_JOINED
            \/ unit.policy = MinswapV1_LP_TOKEN_POLICY_ID
            \/ unit.policy = MinswapV1_POOL_NFT_POLICY_ID
      [] dex = "MINSWAPV2" ->
            \/ unit = MinswapV2_POOL_VALIDITY_ASSET
            \/ unit.policy = MinswapV2_LP_TOKEN_POLICY_ID
      [] dex = "SUNDAESWAPV1" -> unit.policy = SundaeSwapV1_LP_TOKEN_POLICY_ID
      [] dex = "SUNDAESWAPV3" -> unit.policy = SundaeSwapV3_LP_TOKEN_POLICY_ID
      [] dex = "WINGRIDER" -> unit.policy = WingRiders_POOL_VALIDITY_POLICY
      [] dex = "WINGRIDERV2" -> unit.policy = WingRidersV2_POOL_VALIDITY_POLICY
      [] dex = "CSWAP" -> is_lp_token(unit)
      [] dex = "VYFINANCE" -> unit = pool_id

Relevant(dex, utxo, pool_id) ==
    SelectSeq(utxo.amount, LAMBDA a: ~Excluded(dex, a.unit, pool_id))

(***************************************************************************)
(* Properties of the single-output calls.                                  *)
(***************************************************************************)
\* C1: liquidity_pool_from_utxo on an output with a datum hash returns None
\* whenever the number of relevant holdings is 1 or is 4 or more.
C1_NoneUnlessTwoOrThree ==
    (/\ call.op = "from_utxo"
     /\ call.utxo.data_hash # NoHash
     /\ LET n == Len(Relevant(call.dex, call.utxo, call.pool_id))
        IN n = 1 \/ n >= 4)
    => call.res.tag = "None"

\* the witness of C1: a MinswapV1 output with lovelace and three tokens is
\* given a record
C1_RecordFromFour ==
    /\ call.op = "from_utxo"
    /\ call.dex = "MINSWAP"
    /\ call.utxo.data_hash # NoHash
    /\ Len(Relevant(call.dex, call.utxo, call.pool_id)) = 4
    /\ call.res.tag = "Some"

\* each variant's parse_pool_datum; MinswapV1 reads no datum
parse_pool_datum(dex, cbor_hex) ==
    CASE dex = "MINSWAP" -> Ok(cbor_hex)
      [] dex = "MINSWAPV2" -> MinswapV2_parse_pool_datum(cbor_hex)
      [] dex = "SUNDAESWAPV1" -> SundaeSwapV1_parse_pool_datum(cbor_hex)
      [] dex = "SUNDAESWAPV3" -> SundaeSwapV3_parse_pool_datum(cbor_hex)
      [] dex = "WINGRIDER" -> WingRiders_parse_pool_datum(cbor_hex)
      [] dex = "WINGRIDERV2" -> WingRidersV2_parse_pool_datum(cbor_hex)
      [] dex = "CSWAP" -> CSwap_parse_pool_datum(cbor_hex)
      [] dex = "VYFINANCE" -> VyFinance_parse_pool_datum(cbor_hex)

\* the output looks valid by its holdings: liquidity_pool_from_utxo gives a
\* record for it when the indexer serves a well-formed datum
Accepts(dex, utxo, pool_id) ==
    liquidity_pool_from_utxo(dex, utxo, pool_id, Ok(Datums(dex).ok)).res.tag = "Some"

\* the answer of kupo.datum is an error, or a datum parse_pool_datum rejects
DatumFails(dex, datum) ==
    /\ dex # "MINSWAP"
    /\ IF datum.ok THEN ~parse_pool_datum(dex, datum.val).ok ELSE TRUE

\* the datum the indexer answered the last single-output call with
CallDatum == KupoDatum(call.dex, call.utxo.data_hash, call.up)

\* C3: liquidity_pool_from_utxo_extend returns Err, neither None nor a record,
\* whenever the output looks valid to liquidity_pool_from_utxo and the datum
\* fetch or the datum decode fails.
C3_ExtendErrOnDatumFailure ==
    (/\ call.op = "extend"
     /\ Accepts(call.dex, call.utxo, call.pool_id)
     /\ DatumFails(call.dex, CallDatum))
    => call.res.tag = "Err"

\* the witness of C3: VyFinance's extend answers None for an output whose
\* datum the indexer does not serve
C3_VyFinanceNone ==
    /\ call.op = "extend"
    /\ call.dex = "VYFINANCE"
    /\ Accepts(call.dex, call.utxo, call.pool_id)
    /\ ~CallDatum.ok
    /\ call.res.tag = "None"

\* C6: liquidity_pool_from_utxo issues no datum fetch, and a second call on
\* the same output returns an equal result whatever the indexer answers.
C6_FromUtxoHoldingsOnly ==
    call.op = "from_utxo"
    => /\ indexer.datums = <<>>
       /\ \A up2 \in BOOLEAN :
            liquidity_pool_from_utxo(call.dex, call.utxo, call.pool_id,
                KupoDatum(call.dex, call.utxo.data_hash, up2)).res = call.res

\* the witness of C6: VyFinance's liquidity_pool_from_utxo has fetched the
\* datum of the output
C6_VyFinanceFetches ==
    /\ call.op = "from_utxo"
    /\ call.dex = "VYFINANCE"
    /\ call.res.tag = "Some"
    /\ indexer.datums = <<call.utxo.data_hash>>

\* the units of an output that the variant takes for a pool identifier, in
\* the order of the holdings; VyFinance searches none and keeps its argument
PoolIdUnits(dex, utxo) ==
    SelectSeq(utxo.amount, LAMBDA a:
        CASE dex = "MINSWAP" -> a.unit.policy = MinswapV1_POOL_NFT_POLICY_ID
          [] dex = "MINSWAPV2" ->
                /\ a.unit.policy = MinswapV2_LP_TOKEN_POLICY_ID
                /\ a.unit # MinswapV2_POOL_VALIDITY_ASSET
          [] dex = "SUNDAESWAPV1" -> a.unit.policy = SundaeSwapV1_LP_TOKEN_POLICY_ID
          [] dex = "SUNDAESWAPV3" -> a.unit.policy = SundaeSwapV3_LP_TOKEN_POLICY_ID
          [] dex = "WINGRIDER" ->
                /\ a.unit.policy = WingRiders_POOL_VALIDITY_POLICY
                /\ a.unit # WingRiders_POOL_VALIDITY_ASSET_JOINED
          [] dex = "WINGRIDERV2" ->
                /\ a.unit.policy = WingRidersV2_POOL_VALIDITY_POLICY
                /\ a.unit # WingRidersV2_POOL_VALIDITY_ASSET_JOINED
          [] dex = "CSWAP" -> is_lp_token(a.unit)
          [] dex = "VYFINANCE" -> FALSE)

\* C7: the pool identifier of a record of liquidity_pool_from_utxo is the
\* first unit of the holdings that matches the variant's marker pattern, and
\* the pool_id argument when no unit matches.
C7_PoolIdIsFirstMarker ==
    (call.op = "from_utxo" /\ call.res.tag = "Some")
    => LET ids == PoolIdUnits(call.dex, call.utxo)
       IN call.res.pool.pool_id =
            IF ids = <<>> THEN call.pool_id ELSE ids[1].unit

\* the witness of C7: a SundaeSwapV1 record whose pool identifier is the
\* second of two LP units of the output
C7_LastMarkerTaken ==
    /\ call.op = "from_utxo"
    /\ call.dex = "SUNDAESWAPV1"
    /\ call.res.tag = "Some"
    /\ Len(PoolIdUnits(call.dex, call.utxo)) = 2
    /\ call.res.pool.pool_id = PoolIdUnits(call.dex, call.utxo)[2].unit

\* the reserve a variant's liquidity_pool_from_utxo derives from a holding:
\* its quantity, less the minimum deposit on a lovelace side of the treasury
\* variants, less the datum's bar fee (bar_fee) in VyFinance
ReserveOf(dex, holding, bar_fee) ==
    CASE dex \in {"WINGRIDER", "WINGRIDERV2"} ->
            IF holding.unit = LovelaceUnit
            THEN SatSub(holding.quantity, MIN_POOL_ADA)
            ELSE holding.quantity
      [] dex = "VYFINANCE" -> SatSub(holding.quantity, bar_fee)
      [] OTHER -> holding.quantity

\* C8: with exactly 2 relevant holdings asset_a and reserve_a are the unit and
\* the quantity of the first and asset_b and reserve_b those of the second;
\* with exactly 3 they are those of the middle and of the last one.
C8_ReservePairByPosition ==
    (/\ call.op = "from_utxo"
     /\ call.res.tag = "Some"
     /\ Len(Relevant(call.dex, call.utxo, call.pool_id)) \in {2, 3})
    => LET relevant == Relevant(call.dex, call.utxo, call.pool_id)
           a == relevant[Len(relevant) - 1]
           b == relevant[Len(relevant)]
           pool == call.res.pool
       IN /\ pool.asset_a = from_identifier(a.unit, 0)
          /\ pool.asset_b = from_identifier(b.unit, 0)
          /\ pool.reserve_a = a.quantity
          /\ pool.reserve_b = b.quantity

\* C8 as the code has it: the assets are the units at those positions, with
\* lovelace first of 2 and left out of 3, and each reserve is the quantity at
\* its position less the variant's deduction (ReserveOf).
C8_ReservePairByPositionLessDeductions ==
    (/\ call.op = "from_utxo"
     /\ call.res.tag = "Some"
     /\ Len(Relevant(call.dex, call.utxo, call.pool_id)) \in {2, 3})
    => LET relevant == Relevant(call.dex, call.utxo, call.pool_id)
           a == relevant[Len(relevant) - 1]
           b == relevant[Len(relevant)]
           pool == call.res.pool
           d == IF call.dex = "VYFINANCE"
                THEN parse_pool_datum(call.dex, CallDatum.val).val
                ELSE [bar_fee_a |-> 0, bar_fee_b |-> 0]
       IN /\ pool.asset_a = from_identifier(a.unit, 0)
          /\ pool.asset_b = from_identifier(b.unit, 0)
          /\ pool.reserve_a = ReserveOf(call.dex, a, d.bar_fee_a)
          /\ pool.reserve_b = ReserveOf(call.dex, b, d.bar_fee_b)
          /\ relevant[1].unit = LovelaceUnit
          /\ Len(relevant) = 2 => is_lovelace(pool.asset_a)
          /\ Len(relevant) = 3 => ~is_lovelace(pool.asset_a) /\ ~is_lovelace(pool.asset_b)

\* the witness of C8: a CSwap record built from 3 relevant holdings
C8_RecordFromThree ==
    /\ call.op = "from_utxo"
    /\ call.dex = "CSWAP"
    /\ call.res.tag = "Some"
    /\ Len(Relevant(call.dex, call.utxo, call.pool_id)) = 3
    /\ call.res.pool.reserve_a = 1000

\* the sub-kind marker of a datum: for the treasury variants a nonempty
\* constructor as the 21st field (a stable sub-pool), for MinswapV2 the LP
\* policy as the policy of the second asset
SubKindMarker(dex, cbor_hex) ==
    LET fields == constr_fields(cbor_hex) IN
    CASE dex \in {"WINGRIDER", "WINGRIDERV2"} ->
            /\ fields.ok
            /\ Len(fields.val) > 20
            /\ LET v == fields.val[21]
               IN /\ v.kind = "tag"
                  /\ v.inner.kind = "array"
                  /\ v.inner.items # <<>>
      [] dex = "MINSWAPV2" ->
            /\ fields.ok
            /\ Len(fields.val) >= 3
            /\ LET asset_b == parse_asset_constr(fields.val[3])
               IN asset_b.ok /\ asset_b.val[1] = MinswapV2_LP_TOKEN_POLICY_ID
      [] OTHER -> FALSE

\* the last call was an extend on an output that liquidity_pool_from_utxo
\* accepts and whose datum the indexer served, parse_pool_datum accepted and
\* carries the sub-kind marker
ExtendedMarkedDatum ==
    /\ call.op = "extend"
    /\ Accepts(call.dex, call.utxo, call.pool_id)
    /\ CallDatum.ok
    /\ parse_pool_datum(call.dex, CallDatum.val).ok
    /\ SubKindMarker(call.dex, CallDatum.val)

\* C9: extend returns None for WingRiders, WingRidersV2 and MinswapV2 when the
\* datum of an output accepted by liquidity_pool_from_utxo carries the
\* variant's sub-kind marker.
C9_MarkedDatumExcluded ==
    (ExtendedMarkedDatum /\ call.dex \in {"WINGRIDER", "WINGRIDERV2", "MINSWAPV2"})
    => call.res.tag = "None"

\* C9 as the code has it: the exclusion is made by WingRidersV2 and MinswapV2.
C9_MarkedDatumExcludedV2 ==
    (ExtendedMarkedDatum /\ call.dex \in {"WINGRIDERV2", "MINSWAPV2"})
    => call.res.tag = "None"

\* the witness of C9: WingRidersV2's extend answers None for a stable sub-pool
C9_StableExcluded ==
    /\ ExtendedMarkedDatum
    /\ call.dex = "WINGRIDERV2"
    /\ call.res.tag = "None"

(***************************************************************************)
(* The outputs of a pair query, stage by stage.                            *)
(***************************************************************************)
\* the preliminary record of an output, as the pair query builds it
Preliminary(dex, utxo) ==
    liquidity_pool_from_utxo(dex, utxo, EmptyId, KupoDatum(dex, utxo.data_hash, TRUE)).res

\* the record of an output when the indexer serves its datum
Extended(dex, utxo) ==
    LET base == Preliminary(dex, utxo) IN
    IF base.tag # "Some" \/ dex = "MINSWAP" THEN base
    ELSE liquidity_pool_from_utxo_extend(dex, utxo, base.pool.pool_id,
            KupoDatum(dex, utxo.data_hash, TRUE)).res

\* the record's two assets are the two tokens, in either order
PairIs(pool, x, y) ==
    {token_identifier(pool.asset_a), token_identifier(pool.asset_b)} = {x, y}

\* the output gives a preliminary record of the pair asked for
MatchingOutput(dex, utxo, x, y) ==
    LET base == Preliminary(dex, utxo) IN
    IF base.tag = "Some" THEN PairIs(base.pool, x, y) ELSE FALSE

Contains(pools, pool) == \E k \in 1..Len(pools) : pools[k] = pool

\* C2: in a pair query that the indexer serves without failure, an error of
\* one output, in the preliminary or in the extend stage, skips that output
\* only: the query returns Ok and its result holds the extended record of
\* every matching output that has one.
C2_OutputErrorOnlySkips ==
    (query.op = "by_pair" /\ query.get_up /\ query.api_up /\ query.down = {}) =>
        /\ query.res.ok
        /\ query.dex # "VYFINANCE" =>
             \A k \in 1..Len(query.snapshot) :
                LET utxo == query.snapshot[k]
                    ext == Extended(query.dex, utxo)
                IN (MatchingOutput(query.dex, utxo, query.token_a, query.token_b)
                        /\ ext.tag = "Some")
                     => Contains(query.res.val, ext.pool)

\* an output whose quantity does not parse ends the query with its error,
\* and the pool of the pair next to it is not returned
C2_PreliminaryErrorAborts ==
    /\ query.op = "by_pair" /\ query.get_up /\ query.down = {}
    /\ query.dex = "MINSWAPV2"
    /\ ~query.res.ok
    /\ \E i, j \in 1..Len(query.snapshot) :
          /\ Preliminary(query.dex, query.snapshot[i]).tag = "Err"
          /\ MatchingOutput(query.dex, query.snapshot[j], query.token_a, query.token_b)
          /\ Extended(query.dex, query.snapshot[j]).tag = "Some"

\* a query of the indexer was made and failed
IndexerFailed ==
    \/ (~query.get_up /\ indexer.gets # <<>>)
    \/ \E k \in 1..Len(indexer.datums) : indexer.datums[k] \in query.down

IsError(res) == IF query.op = "by_id" THEN res.tag = "Err" ELSE ~res.ok

\* C4: when a query of the indexer fails during a pair query, a lookup by id
\* or an export, the operation returns an error and no records.
C4_IndexerFailurePropagates ==
    (query.op # "none" /\ IndexerFailed) => IsError(query.res)

\* the datum of a matching output is not served and the pair query returns
\* Ok without its pool
C4_DatumFailureShortensList ==
    /\ query.op = "by_pair" /\ query.get_up
    /\ \E k \in 1..Len(indexer.datums) : indexer.datums[k] \in query.down
    /\ query.res.ok
    /\ \E k \in 1..Len(query.snapshot) :
          /\ MatchingOutput(query.dex, query.snapshot[k], query.token_a, query.token_b)
          /\ Extended(query.dex, query.snapshot[k]).tag = "Some"
          /\ ~Contains(query.res.val, Extended(query.dex, query.snapshot[k]).pool)

\* the outputs the loop of the pair query works on: those before the first
\* whose preliminary stage fails
RECURSIVE Processed(_, _)
Processed(dex, utxos) ==
    IF utxos = <<>> THEN <<>>
    ELSE IF Preliminary(dex, Head(utxos)).tag = "Err" THEN <<>>
    ELSE <<Head(utxos)>> \o Processed(dex, Tail(utxos))

\* the entries of VyFinance's listing that name the pair and have a pool NFT
ListedForPair(snapshot, x, y) ==
    SelectSeq(fetch_all_pool_data(snapshot, TRUE).val,
              LAMBDA p: {p.units_pair[1], p.units_pair[2]} = {x, y}
                            /\ p.pool_nft_policy_id # EmptyId)

\* C5 as the specification has it: the pair query makes one query for the
\* candidates and as many datum fetches as there are matching outputs.
C5_FetchPerMatchingOutput ==
    (query.op = "by_pair" /\ query.get_up /\ query.api_up) =>
        /\ Len(indexer.gets) = 1
        /\ Len(indexer.datums) =
              Cardinality({ k \in 1..Len(query.snapshot) :
                  MatchingOutput(query.dex, query.snapshot[k], query.token_a, query.token_b) })

\* C5: the variants with an extend stage make one query for the candidates,
\* two for SundaeSwapV3, and fetch the datum of exactly the outputs that match
\* the pair, carry a datum hash and come before the first output whose
\* preliminary stage fails; MinswapV1 fetches no datum; VyFinance queries
\* the indexer once per listed pool of the pair and fetches at most one
\* datum per such query.
C5_FetchPerMatchBeforeAbort ==
    (query.op = "by_pair" /\ (query.dex = "VYFINANCE" => query.api_up)) =>
        IF query.dex = "VYFINANCE"
        THEN LET listed == ListedForPair(query.snapshot, query.token_a, query.token_b)
             IN /\ Len(indexer.gets) = Len(listed)
                /\ \A k \in 1..Len(listed) :
                      \E i \in 1..Len(indexer.gets) :
                          indexer.gets[i] = MatchPattern(listed[k].pool_nft_policy_id)
                /\ Len(indexer.datums) <= Len(indexer.gets)
        ELSE LET fetching == SelectSeq(Processed(query.dex, query.snapshot), LAMBDA u:
                                /\ MatchingOutput(query.dex, u, query.token_a, query.token_b)
                                /\ u.data_hash # NoHash)
             IN /\ Len(indexer.gets) = IF query.dex = "SUNDAESWAPV3" THEN 2 ELSE 1
                /\ indexer.datums =
                      IF query.get_up /\ query.dex # "MINSWAP"
                      THEN [k \in 1..Len(fetching) |-> fetching[k].data_hash]
                      ELSE <<>>

\* a pair query over a matching and a non-matching pool that fetches one datum
C5_OneFetchForTwoCandidates ==
    /\ query.op = "by_pair" /\ query.dex = "WINGRIDER" /\ query.get_up
    /\ Len(query.snapshot) = 2
    /\ MatchingOutput(query.dex, query.snapshot[1], query.token_a, query.token_b)
    /\ Preliminary(query.dex, query.snapshot[2]).tag = "Some"
    /\ ~MatchingOutput(query.dex, query.snapshot[2], query.token_a, query.token_b)
    /\ indexer.datums = <<query.snapshot[1].data_hash>>

\* the number of times a record is in a list
Count(pools, pool) == Cardinality({ k \in 1..Len(pools) : pools[k] = pool })

\* the two results are both an error, or hold the same records as often
SameRecords(res1, res2) ==
    /\ res1.ok = res2.ok
    /\ res1.ok =>
         /\ Len(res1.val) = Len(res2.val)
         /\ \A k \in 1..Len(res1.val) : Count(res1.val, res1.val[k]) = Count(res2.val, res1.val[k])

\* the pair query of the state with its two tokens exchanged
Swapped ==
    liquidity_pools_from_token(query.dex, query.snapshot, query.token_b, query.token_a,
                               query.cached, query.api_up, query.get_up, query.down)

\* C10 as the specification has it: the pair query gives the same records
\* for (x, y) and (y, x), and every record it gives has the two tokens as
\* its assets.
C10_SymmetricAndOnlyThePair ==
    query.op = "by_pair" =>
        /\ SameRecords(query.res, Swapped.res)
        /\ query.res.ok =>
             \A k \in 1..Len(query.res.val) :
                PairIs(query.res.val[k], query.token_a, query.token_b)

\* C10: the pair query gives the same records for (x, y) and (y, x); every
\* record has the two tokens as the assets of its holdings, except with
\* VyFinance, where every record is the pool of an entry of the listing
\* whose units_pair is the two tokens.
C10_SymmetricAndOnlyTheListedPair ==
    query.op = "by_pair" =>
        /\ SameRecords(query.res, Swapped.res)
        /\ query.res.ok =>
             \A k \in 1..Len(query.res.val) :
                IF query.dex = "VYFINANCE"
                THEN \E p \in 1..Len(ListedForPair(query.snapshot, query.token_a, query.token_b)) :
                        ListedForPair(query.snapshot, query.token_a, query.token_b)[p]
                            .pool_nft_policy_id = query.res.val[k].pool_id
                ELSE PairIs(query.res.val[k], query.token_a, query.token_b)

\* a query for (token, lovelace) that returns a lovelace/token record
C10_RecordInTheOtherOrder ==
    /\ query.op = "by_pair" /\ query.res.ok
    /\ query.token_a # query.token_b
    /\ \E k \in 1..Len(query.res.val) :
          /\ token_identifier(query.res.val[k].asset_a) = query.token_b
          /\ token_identifier(query.res.val[k].asset_b) = query.token_a

(***************************************************************************)
(* Claims on the records of the extend stage.                              *)
(***************************************************************************)
\* the unit a MinswapV2 datum declares: an empty policy with an empty name is
\* lovelace
DeclaredUnit(policy, name) ==
    IF policy = "" /\ name = "" THEN LovelaceUnit ELSE [policy |-> policy, name |-> name]

\* the parsed datum of the MinswapV2 output of the call
CallMinswapV2Datum == MinswapV2_parse_pool_datum(CallDatum.val).val

\* an extend of MinswapV2 that returned a record whose two assets are the two
\* assets its datum declares
MinswapV2Aligned ==
    /\ call.op = "extend" /\ call.dex = "MINSWAPV2" /\ call.res.tag = "Some"
    /\ LET d == CallMinswapV2Datum IN
       {token_identifier(call.res.pool.asset_a), token_identifier(call.res.pool.asset_b)}
          = {DeclaredUnit(d.pool_asset_a_policy, d.pool_asset_a_name),
             DeclaredUnit(d.pool_asset_b_policy, d.pool_asset_b_name)}

\* C11: a MinswapV2 record of extend whose assets are those of its datum has
\* as reserve_a the datum reserve of the datum asset that is its asset_a, and
\* as reserve_b that of the one that is its asset_b.
C11_ReservesFollowDatumOrder ==
    MinswapV2Aligned =>
        LET d == CallMinswapV2Datum
            pool == call.res.pool
            reserve_of(asset) ==
                IF token_identifier(asset)
                     = DeclaredUnit(d.pool_asset_a_policy, d.pool_asset_a_name)
                THEN d.reserve_a ELSE d.reserve_b
        IN /\ pool.reserve_a = reserve_of(pool.asset_a)
           /\ pool.reserve_b = reserve_of(pool.asset_b)

\* the datum declares the two tokens in the order opposite to the holdings'
C11_ReservesSwapped ==
    /\ MinswapV2Aligned
    /\ token_identifier(call.res.pool.asset_a)
          = DeclaredUnit(CallMinswapV2Datum.pool_asset_b_policy,
                         CallMinswapV2Datum.pool_asset_b_name)
    /\ call.res.pool.reserve_a = CallMinswapV2Datum.reserve_b

\* an extend of one of the two WingRiders variants that returned a record
WingRidersExtended ==
    /\ call.op = "extend" /\ call.dex \in {"WINGRIDER", "WINGRIDERV2"}
    /\ call.res.tag = "Some"

\* C12 as stated: for both WingRiders variants the fee of a record returned by
\* extend is, in hundredths of a percent, the sum of the swap, protocol,
\* project and reserve fees read from the datum.
C12_FeeIsSumOfDatumFees ==
    WingRidersExtended =>
        LET parsed == WingRidersV2_parse_pool_datum(CallDatum.val) IN
        /\ parsed.ok
        /\ call.res.pool.pool_fee_percent
              = Fee(parsed.val.swap_fee + parsed.val.protocol_fee
                    + parsed.val.project_fee + parsed.val.reserve_fee, 100)

\* C12: the fee of a WingRidersV2 record returned by extend is, in hundredths
\* of a percent, the sum of the swap, protocol, project and reserve fees of its
\* datum; a WingRiders record keeps the fixed 0.35 percent, its datum carrying
\* no fee.
C12_FeeIsSumForV2AndFixedForV1 ==
    WingRidersExtended =>
        IF call.dex = "WINGRIDERV2"
        THEN LET d == WingRidersV2_parse_pool_datum(CallDatum.val).val IN
             call.res.pool.pool_fee_percent
                = Fee(d.swap_fee + d.protocol_fee + d.project_fee + d.reserve_fee, 100)
        ELSE call.res.pool.pool_fee_percent = Fee(35, 100)

\* a WingRidersV2 record of fee 0.30 percent from the fees 20, 5, 0 and 5
C12_ThirtyFromFourFees ==
    /\ WingRidersExtended /\ call.dex = "WINGRIDERV2"
    /\ LET d == WingRidersV2_parse_pool_datum(CallDatum.val).val IN
       <<d.swap_fee, d.protocol_fee, d.project_fee, d.reserve_fee>> = <<20, 5, 0, 5>>
    /\ call.res.pool.pool_fee_percent = Fee(30, 100)

\* the quantity an output holds of the unit of asset
HoldingOf(utxo, asset) ==
    LET k == CHOOSE k \in 1..Len(utxo.amount) :
                utxo.amount[k].unit = token_identifier(asset)
    IN utxo.amount[k].quantity

\* an extend of SundaeSwapV3 that returned a record
SundaeSwapV3Extended ==
    call.op = "extend" /\ call.dex = "SUNDAESWAPV3" /\ call.res.tag = "Some"

\* C13: a SundaeSwapV3 record of extend has, on the side that is lovelace, the
\* holding less the signed deduction of the datum (an unsigned reserve not
\* going below zero) and on the other side the holding; with no lovelace side
\* both reserves are the holdings.
C13_SignedDeductionFromNativeSide ==
    SundaeSwapV3Extended =>
        LET d == SundaeSwapV3_parse_pool_datum(CallDatum.val).val
            pool == call.res.pool
            holding_a == HoldingOf(call.utxo, pool.asset_a)
            holding_b == HoldingOf(call.utxo, pool.asset_b)
            less(holding) == IF holding - d.lovelace_deduction < 0 THEN 0
                             ELSE holding - d.lovelace_deduction
        IN IF is_lovelace(pool.asset_a)
           THEN pool.reserve_a = less(holding_a) /\ pool.reserve_b = holding_b
           ELSE IF is_lovelace(pool.asset_b)
           THEN pool.reserve_a = holding_a /\ pool.reserve_b = less(holding_b)
           ELSE pool.reserve_a = holding_a /\ pool.reserve_b = holding_b

\* a negative deduction lowers the lovelace reserve by its magnitude
C13_NegativeDeductionLowers ==
    /\ SundaeSwapV3Extended
    /\ is_lovelace(call.res.pool.asset_a)
    /\ LET d == SundaeSwapV3_parse_pool_datum(CallDatum.val).val IN
       /\ d.lovelace_deduction < 0
       /\ call.res.pool.reserve_a
             = HoldingOf(call.utxo, call.res.pool.asset_a) + d.lovelace_deduction

\* a call of CSwap's liquidity_pool_from_utxo that returned a record
CSwapRecord == call.op = "from_utxo" /\ call.dex = "CSWAP" /\ call.res.tag = "Some"

\* the record of the call has the unit of none of the holdings lps as an
\* asset, and that of the last of them, the identifier passed when there is
\* none, as pool identifier
LpTreatment(lps) ==
    /\ \A k \in 1..Len(lps) :
          /\ token_identifier(call.res.pool.asset_a) # lps[k].unit
          /\ token_identifier(call.res.pool.asset_b) # lps[k].unit
    /\ call.res.pool.pool_id = IF lps = <<>> THEN call.pool_id ELSE lps[Len(lps)].unit

\* C14 as stated: every holding whose unit identifier ends in the two
\* characters of the LP token name is left out of the reserve holdings of a
\* CSwap record and is its pool identifier.
C14_LpTokenBySuffix ==
    CSwapRecord =>
        LpTreatment(SelectSeq(call.utxo.amount, LAMBDA a: is_lp_token_by_suffix(a.unit)))

\* C14: every holding whose unit is a policy id followed by a name that is
\* exactly the two characters of the LP token name is left out of the reserve
\* holdings of a CSwap record and is its pool identifier; every other holding
\* is a reserve holding.
C14_LpTokenByWholeName ==
    CSwapRecord =>
        /\ LpTreatment(SelectSeq(call.utxo.amount, LAMBDA a:
                a.unit # LovelaceUnit /\ a.unit.policy # ""
                    /\ a.unit.name = CSwap_LP_TOKEN_NAME_HEX))
        /\ Len(SelectSeq(call.utxo.amount,
                LAMBDA a: a.unit.name # CSwap_LP_TOKEN_NAME_HEX)) \in {2, 3}

\* a CSwap record with the LP token as pool identifier and, as asset_b, a
\* token whose longer name ends in the two characters
C14_SuffixTokenIsReserve ==
    /\ CSwapRecord
    /\ is_lp_token(call.res.pool.pool_id)
    /\ token_identifier(call.res.pool.asset_b) = Token(3)
    /\ HoldsUnit(call.utxo, call.res.pool.pool_id)

(***************************************************************************)
(* Claims on the fan-outs.                                                 *)
(***************************************************************************)
\* the tasks that hold a permit
PermitHolders ==
    {i \in 1..fanout.total :
        fanout.pc[i] \in {"running", "counted", "counted_skipped"}}

\* C15: in no state of a fan-out do more than CONCURRENCY = 5 tasks hold a
\* permit.
C15_AtMostFivePermits ==
    fanout.kind \in FanOutKinds => Cardinality(PermitHolders) <= CONCURRENCY

\* five tasks hold a permit and a sixth waits for one
C15_SixthTaskWaits ==
    /\ fanout.kind \in FanOutKinds
    /\ Cardinality(PermitHolders) = CONCURRENCY
    /\ \E i \in 1..fanout.total : fanout.pc[i] = "spawned"

\* the records the tasks of the fan-out return, in the order of the candidates
Produced ==
    LET some == SelectSeq([i \in 1..fanout.total |-> fanout.result[i]],
                          LAMBDA r: r.tag = "Some")
    IN [k \in 1..Len(some) |-> some[k].pool]

\* C16: the list a finished fan-out hands over holds the records its tasks
\* returned in nondecreasing order of pool identifier, whatever the order the
\* tasks completed in.
C16_SortedWhateverTheCompletionOrder ==
    (fanout.kind \in FanOutKinds /\ fanout.finished) =>
        /\ SameRecords(Ok(fanout.pools), Ok(Produced))
        /\ \A k \in 1..(Len(fanout.pools) - 1) :
              ~PoolIdLess(fanout.pools[k + 1].pool_id, fanout.pools[k].pool_id)

\* the pair query of VyFinance hands over two records, the greater
\* identifier first
C16_PairQueryUnsorted ==
    /\ fanout.kind = "liquidity_pools_from_token_cached"
    /\ fanout.finished
    /\ Len(fanout.pools) >= 2
    /\ PoolIdLess(fanout.pools[2].pool_id, fanout.pools[1].pool_id)

\* C17: when export_all has finished, the done counter is the number of
\* candidate outputs, the skipped counter the number of outputs with no
\* record, and the reported numbers of exported and of skipped outputs add up
\* to the number of candidates.
C17_CountersAddUp ==
    (fanout.kind = "export_all" /\ fanout.finished) =>
        /\ fanout.done = fanout.total
        /\ fanout.skipped
              = Cardinality({i \in 1..fanout.total : fanout.result[i].tag # "Some"})
        /\ fanout.report[1] + fanout.report[2] = fanout.total

\* an export_all over more outputs than permits, some of them skipped, has
\* finished
C17_FinishedWithSkipped ==
    /\ fanout.kind = "export_all" /\ fanout.finished
    /\ fanout.total > CONCURRENCY
    /\ fanout.skipped > 0 /\ fanout.skipped < fanout.total
    /\ fanout.report = <<fanout.total - fanout.skipped, fanout.skipped>>

(***************************************************************************)
(* Claims on what is missing at the indexer.                               *)
(***************************************************************************)
\* C18: a resolve by identifier that the indexer answers without failure
\* returns None, and no error, when no output holds the identifier or when
\* the indexer has no datum under the datum hash of the output that does.
C18_MissingIsNoneNotError ==
    (/\ query.op = "by_id"
     /\ query.get_up /\ query.down = {}
     /\ LET holders == SelectSeq(query.snapshot, LAMBDA u:
                HoldsUnit(u, full_id(query.dex, query.pool_id)))
        IN holders = <<>> \/ holders[1].data_hash = "missing")
    => query.res.tag = "None"

\* the indexer has no datum under the hash of the output of the identifier,
\* KupoApi::datum answers Err and so does the resolve by identifier
C18_MissingDatumIsError ==
    /\ query.op = "by_id"
    /\ query.get_up /\ query.down = {}
    /\ LET holders == SelectSeq(query.snapshot, LAMBDA u:
               HoldsUnit(u, full_id(query.dex, query.pool_id)))
       IN /\ holders # <<>>
          /\ holders[1].data_hash = "missing"
          /\ ~KupoDatum(query.dex, holders[1].data_hash, TRUE).ok
    /\ indexer.datums = <<"missing">>
    /\ query.res.tag = "Err"

(***************************************************************************)
(* Claims on the token identifiers.                                        *)
(***************************************************************************)
\* C19: from_identifier reads the identifier of lovelace back as lovelace, and
\* the identifier of an asset with a policy id of 56 characters, whatever its
\* name, back as that asset when given its decimals; the same with a dot
\* between the policy id and the name.
C19_IdentifierRoundTrip ==
    (/\ call.op = "round_trip"
     /\ \/ call.token.kind = "Lovelace"
        \/ Len(call.token.policy_id) = 56 /\ call.token.decimals = call.decimals)
    => call.res = call.token

\* an asset with a name, written with the dot, is read back
C19_DottedAssetReadBack ==
    /\ call.op = "round_trip"
    /\ call.token.kind = "Asset"
    /\ Len(call.token.policy_id) = 56 /\ call.token.name_hex # <<>>
    /\ call.delimiter = <<".">>
    /\ Len(call.id) = 56 + 1 + Len(call.token.name_hex)
    /\ call.res = call.token

(***************************************************************************)
(* Claims on the order book.                                               *)
(***************************************************************************)
\* C20: the order book of a token holds, for each output whose datum is an
\* order of that token, an order whose amount is the remaining amount of the
\* datum and whose price denominator is the denominator the datum encodes, 1
\* for the null alternative; the order is a buy order, and in the buy list,
\* exactly when the output holds lovelace alone, and otherwise a sell order
\* in the sell list.
C20_OrdersByTokenAndSide ==
    (query.op = "orders" /\ query.res.ok) =>
        LET order(utxo) ==
                LET f == OrderFacts[utxo.data_hash] IN
                [asset |-> Asset(f.token.policy, f.token.name, 0),
                 amount |-> f.remaining,
                 price |-> f.unit_price,
                 price_denominator |-> IF f.denominator = Nothing THEN 1
                                       ELSE f.denominator.inner.items[1].int,
                 is_buy |-> Len(utxo.amount) = 1]
            listed(is_buy) ==
                SelectSeq(query.snapshot, LAMBDA u:
                    /\ u.data_hash \in DOMAIN OrderFacts
                    /\ u.data_hash \notin query.down
                    /\ OrderFacts[u.data_hash].token = query.token_id
                    /\ (Len(u.amount) = 1) = is_buy)
        IN /\ query.res.val.buy_orders
                = [k \in 1..Len(listed(TRUE)) |-> order(listed(TRUE)[k])]
           /\ query.res.val.sell_orders
                = [k \in 1..Len(listed(FALSE)) |-> order(listed(FALSE)[k])]

\* a book with one buy order, of a datum with the null denominator, and one
\* sell order with the denominator 7
C20_BuyWithNullAndSell ==
    /\ query.op = "orders" /\ query.res.ok
    /\ Len(query.res.val.buy_orders) = 1 /\ Len(query.res.val.sell_orders) = 1
    /\ query.res.val.buy_orders[1].is_buy
    /\ query.res.val.buy_orders[1].price_denominator = 1
    /\ query.res.val.buy_orders[1].amount = 250000000
    /\ ~query.res.val.sell_orders[1].is_buy
    /\ query.res.val.sell_orders[1].price_denominator = 7

(***************************************************************************)
(* Claims on the resolve by identifier.                                    *)
(***************************************************************************)
\* C21: for a variant that puts its marker policy in front of an identifier,
\* a resolve by the bare identifier and one by the identifier with the policy
\* already in front return the same result: None when the indexer answers and
\* no output holds the identifier with the policy in front, and otherwise the
\* result of the first output that holds it.
C21_BareAndPrefixedAgree ==
    (query.op = "by_id" /\ query.dex \notin {"CSWAP", "VYFINANCE"}) =>
        LET bare == [policy |-> "", name |-> query.pool_id.name]
            prefixed == [policy |-> Marker(query.dex, 1).policy,
                         name |-> query.pool_id.name]
            holders == SelectSeq(query.snapshot, LAMBDA u: HoldsUnit(u, prefixed))
            first == holders[1]
            datum == KupoDatum(query.dex, first.data_hash,
                               first.data_hash \notin query.down)
        IN /\ query.res = liquidity_pool_from_pool_id(query.dex, query.snapshot,
                                IF query.pool_id = bare THEN prefixed ELSE bare,
                                query.get_up, query.down).res
           /\ query.get_up =>
                query.res = IF holders = <<>> THEN NonePool
                            ELSE IF query.dex = "MINSWAP"
                            THEN liquidity_pool_from_utxo(query.dex, first, prefixed,
                                                          datum).res
                            ELSE liquidity_pool_from_utxo_extend(query.dex, first,
                                                                 prefixed, datum).res

\* a resolve by a bare identifier returns the record of the pool whose
\* identifier has the policy in front
C21_BareIdentifierResolved ==
    /\ query.op = "by_id" /\ query.dex \notin {"CSWAP", "VYFINANCE"}
    /\ query.pool_id.policy = ""
    /\ query.res.tag = "Some"
    /\ query.res.pool.pool_id =
          [policy |-> Marker(query.dex, 1).policy, name |-> query.pool_id.name]

(***************************************************************************)
(* Claims on the integer projections of dex/cbor.rs.                       *)
(***************************************************************************)
\* C22: value_to_u64 returns the encoded value of every integer node that is
\* not negative, and Err for every negative integer node and for every node
\* that is no integer.
C22_UnsignedExactOrErr ==
    call.op = "value_to_u64" =>
        LET v == call.value IN
        CASE v.kind = "int" ->
                call.res = IF v.int < 0 THEN Err ELSE Ok(v.int)
          [] v.kind = "wide" ->
                call.res = IF v.wide.top < 0 THEN Err ELSE OkWide(v.wide)
          [] OTHER -> call.res = Err

\* the greatest u64, 2^64 - 1, is returned as it is
C22_GreatestU64 ==
    /\ call.op = "value_to_u64"
    /\ call.value = CWide(1, <<2097151, 2097151, 2097151>>)
    /\ call.res = OkWide(WideInt(1, <<2097151, 2097151, 2097151>>))

\* C30: value_to_i64 returns the encoded value of every integer node, from
\* -2^64 to 2^64 - 1.
C30_SignedExact ==
    call.op = "value_to_i64" =>
        CASE call.value.kind = "int" -> call.res = Ok(call.value.int)
          [] call.value.kind = "wide" -> call.res = OkWide(call.value.wide)
          [] OTHER -> TRUE

\* 2^63 is returned as -2^63, 2^64 less than the encoded value
C30_TwoTo63Wraps ==
    /\ call.op = "value_to_i64"
    /\ call.value = CWide(1, <<0, 0, 0>>)
    /\ call.res = OkWide(WideInt(-1, <<0, 0, 0>>))

(***************************************************************************)
(* Claims on the reserves of the two WingRiders variants.                  *)
(***************************************************************************)
\* the treasuries the datum of the call holds for the two sides: the
\* WingRiders datum has one for each side, the WingRidersV2 datum two
CallTreasuries ==
    IF call.dex = "WINGRIDER"
    THEN LET d == WingRiders_parse_pool_datum(CallDatum.val).val IN
         [a |-> <<d.treasury_a, 0>>, b |-> <<d.treasury_b, 0>>]
    ELSE LET d == WingRidersV2_parse_pool_datum(CallDatum.val).val IN
         [a |-> <<d.treasury_a, d.project_treasury_a>>,
          b |-> <<d.treasury_b, d.project_treasury_b>>]

\* C23 as stated: a record returned by extend of a WingRiders variant has, on
\* a side that is lovelace, the holding less the minimum deposit and the
\* treasuries of the datum, and on a side that is not lovelace the holding.
C23_OnlyNativeSideAdjusted ==
    WingRidersExtended =>
        LET pool == call.res.pool
            less(x, y) == IF x - y < 0 THEN 0 ELSE x - y
            side(asset, t) ==
                IF is_lovelace(asset)
                THEN less(less(less(HoldingOf(call.utxo, asset), MIN_POOL_ADA),
                               t[1]), t[2])
                ELSE HoldingOf(call.utxo, asset)
        IN /\ pool.reserve_a = side(pool.asset_a, CallTreasuries.a)
           /\ pool.reserve_b = side(pool.asset_b, CallTreasuries.b)

\* C23: a record returned by extend of a WingRiders variant has on each side
\* the holding, less the minimum deposit when the side is lovelace, less the
\* treasuries the datum holds for that side, whatever the unit of the side.
C23_TreasuriesFromBothSides ==
    WingRidersExtended =>
        LET pool == call.res.pool
            less(x, y) == IF x - y < 0 THEN 0 ELSE x - y
            side(asset, t) ==
                LET holding == HoldingOf(call.utxo, asset)
                    raw == IF is_lovelace(asset) THEN less(holding, MIN_POOL_ADA)
                           ELSE holding
                IN less(less(raw, t[1]), t[2])
        IN /\ pool.reserve_a = side(pool.asset_a, CallTreasuries.a)
           /\ pool.reserve_b = side(pool.asset_b, CallTreasuries.b)

\* a pool of two tokens, none of them lovelace, whose reserves are both below
\* the holdings by the treasuries
C23_TokenPairBelowHoldings ==
    /\ WingRidersExtended
    /\ ~is_lovelace(call.res.pool.asset_a) /\ ~is_lovelace(call.res.pool.asset_b)
    /\ call.res.pool.reserve_a < HoldingOf(call.utxo, call.res.pool.asset_a)
    /\ call.res.pool.reserve_b < HoldingOf(call.utxo, call.res.pool.asset_b)

(***************************************************************************)
(* Claim on the subtractions from the holdings.                            *)
(***************************************************************************)
\* the reserves of the record of the call when every amount extend is to take
\* off a side comes off the holding and stops at 0: minimum deposit and
\* treasuries in the WingRiders variants, the magnitude of the deduction the
\* datum encodes on the lovelace side in SundaeSwapV3, the bar fees in
\* VyFinance
CallSaturated ==
    LET pool == call.res.pool
        holding_a == HoldingOf(call.utxo, pool.asset_a)
        holding_b == HoldingOf(call.utxo, pool.asset_b)
        less(holding, amount) == IF amount > holding THEN 0 ELSE holding - amount
        deposit(asset) == IF is_lovelace(asset) THEN MIN_POOL_ADA ELSE 0
    IN CASE call.dex \in {"WINGRIDER", "WINGRIDERV2"} ->
              [a |-> less(holding_a, deposit(pool.asset_a) + CallTreasuries.a[1]
                                     + CallTreasuries.a[2]),
               b |-> less(holding_b, deposit(pool.asset_b) + CallTreasuries.b[1]
                                     + CallTreasuries.b[2])]
         [] call.dex = "SUNDAESWAPV3" ->
              LET node == constr_fields(decode_cbor(CallDatum.val).val).val[8]
                  \* an encoded deduction beyond the integers TLC holds
                  \* exceeds every holding
                  deducted(holding) ==
                      IF node.kind = "wide" THEN 0
                      ELSE less(holding, IF node.int < 0 THEN -node.int ELSE node.int)
              IN [a |-> IF is_lovelace(pool.asset_a) THEN deducted(holding_a)
                        ELSE holding_a,
                  b |-> IF ~is_lovelace(pool.asset_a) /\ is_lovelace(pool.asset_b)
                        THEN deducted(holding_b) ELSE holding_b]
         [] call.dex = "VYFINANCE" ->
              LET d == VyFinance_parse_pool_datum(CallDatum.val).val
              IN [a |-> less(holding_a, d.bar_fee_a), b |-> less(holding_b, d.bar_fee_b)]

\* an extend of one of the four variants that subtract, that returned a record
SubtractingExtended ==
    /\ call.op = "extend"
    /\ call.dex \in {"WINGRIDER", "WINGRIDERV2", "SUNDAESWAPV3", "VYFINANCE"}
    /\ call.res.tag = "Some"

\* C29: each reserve of a record returned by extend of WingRiders,
\* WingRidersV2, SundaeSwapV3 or VyFinance is the holding of its unit less the
\* amounts to subtract, and 0 when these exceed the holding: it is never above
\* the holding and never below zero.
C29_ReservesSaturate ==
    SubtractingExtended =>
        LET pool == call.res.pool IN
        /\ 0 <= pool.reserve_a
        /\ pool.reserve_a <= HoldingOf(call.utxo, pool.asset_a)
        /\ 0 <= pool.reserve_b
        /\ pool.reserve_b <= HoldingOf(call.utxo, pool.asset_b)
        /\ pool.reserve_a = CallSaturated.a
        /\ pool.reserve_b = CallSaturated.b

\* a SundaeSwapV3 record whose datum encodes a deduction of 2^64 - 1 and whose
\* lovelace reserve is the holding less 1
C29_WrappedDeductionOfOne ==
    /\ SubtractingExtended /\ call.dex = "SUNDAESWAPV3"
    /\ call.utxo.data_hash = "rev"
    /\ is_lovelace(call.res.pool.asset_a)
    /\ call.res.pool.reserve_a = HoldingOf(call.utxo, call.res.pool.asset_a) - 1

(***************************************************************************)
(* Claim on retry.                                                         *)
(***************************************************************************)
\* retry has called f at most n + 1 times, each call but the last one having
\* failed; once returned, the result is the last result of f, which is the
\* first success or the failure number n + 1
RetryWithinBudget ==
    call.op = "retry" =>
        /\ Len(call.results) <= call.n + 1
        /\ \A k \in 1..(Len(call.results) - 1) : ~call.results[k].ok
        /\ call.pc = "returned" =>
              /\ call.res = <<call.results[Len(call.results)]>>
              /\ ~call.res[1].ok => Len(call.results) = call.n + 1
        /\ (call.pc # "returned" /\ call.results # <<>>) =>
              ~call.results[Len(call.results)].ok

\* C24: retry(n, base, f) always returns; it calls f at most n + 1 times,
\* returns Ok at the first success without calling f again and returns Err,
\* the last error, only after n + 1 failed calls: a get or a datum call of the
\* indexer client makes at most 11 attempts.
C24_RetryTerminatesWithinBudget ==
    /\ []RetryWithinBudget
    /\ <>(call.op = "retry" /\ call.pc = "returned")
    /\ []((call.op = "retry" /\ call.pc = "returned") => [](call.pc = "returned"))

\* the eleventh attempt of a call of the indexer client has failed and the
\* error is returned
C24_EleventhAttemptFailed ==
    /\ call.op = "retry" /\ call.n = KUPO_RETRIES
    /\ call.pc = "returned"
    /\ Len(call.results) = 11
    /\ call.res = <<[ok |-> FALSE, val |-> "No datum found"]>>

(***************************************************************************)
(* Claims on the discovery over two addresses.                             *)
(***************************************************************************)
\* the discovery over two addresses has returned
JoinReturned == call.op = "try_join" /\ call.returned

\* C25 as stated: the discovery returns only after both queries have
\* completed, with the outputs of the first address followed by those of the
\* second, or with Err and no list when a query has failed.
C25_ReturnsAfterBothQueries ==
    JoinReturned =>
        /\ call.resolved = {1, 2}
        /\ call.res = IF call.answer[1].ok /\ call.answer[2].ok
                      THEN <<Ok(call.answer[1].val \o call.answer[2].val)>>
                      ELSE <<Err>>

\* C25: the discovery returns Ok only after both queries have completed, with
\* the outputs of the first address followed by those of the second; it
\* returns Err, and no list, as soon as one query has failed, whether the
\* other has completed or not; before that it has not returned.
C25_OkAfterBothErrAfterFirstFailure ==
    call.op = "try_join" =>
        LET failed == {k \in call.resolved : ~call.answer[k].ok} IN
        /\ call.returned <=> (failed # {} \/ call.resolved = {1, 2})
        /\ call.returned =>
              IF failed = {}
              THEN call.res = <<Ok(call.answer[1].val \o call.answer[2].val)>>
              ELSE call.res = <<Err>> /\ Cardinality(failed) = 1
        /\ ~call.returned => call.res = <<>>

\* Err is returned while the query of the first address, which would
\* answer with outputs, has not completed
C25_ErrBeforeTheOtherCompletes ==
    /\ JoinReturned
    /\ call.res = <<Err>>
    /\ call.resolved = {2}
    /\ call.answer[1] = Ok(<<"a2", "a1">>)

(***************************************************************************)
(* Claim on the progress line of export_all.                               *)
(***************************************************************************)
\* C26: whenever a task of export_all evaluates d - s, d being the done
\* counter right after its own increment and s the skipped counter it loads
\* afterwards, s <= d.
C26_SkippedAtMostDone ==
    fanout.kind = "export_all_progress" =>
        \A ds \in fanout.printed : ds[2] <= ds[1]

\* the task that counted itself as the tenth evaluates 10 - 11: eleven tasks
\* without a result have counted themselves as skipped by the time it loads
\* the counter
C26_TenLessEleven ==
    /\ fanout.kind = "export_all_progress"
    /\ <<10, 11>> \in fanout.printed

(***************************************************************************)
(* Claim on the end of the fan-outs.                                       *)
(***************************************************************************)
\* the fan-out has finished: every task has acquired a permit, ended and
\* given the permit back, every handle has been awaited and the semaphore
\* holds its 5 permits
FanOutAtRest ==
    /\ fanout.kind \in FanOutKinds
    /\ fanout.finished
    /\ \A i \in 1..fanout.total : fanout.pc[i] = "returned"
    /\ fanout.awaited = fanout.total
    /\ fanout.permits = CONCURRENCY

\* C27: export_all, the export of VyFinance and its pair query always finish,
\* for any number of candidates: every task acquires a permit, ends and
\* releases it, every handle is collected and all 5 permits are free at the
\* end.
C27_FanOutAlwaysFinishes ==
    /\ <>[]FanOutAtRest
    /\ [](fanout.finished => FanOutAtRest)

\* a fan-out over 6 candidates, more than there are permits, has finished
C27_SixTasksFinished ==
    /\ FanOutAtRest
    /\ fanout.total = 6

(***************************************************************************)
(* Claim on the cache of the VyFinance listing.                            *)
(***************************************************************************)
\* how many times an entry is in a list of candidates
Times(list, entry) == Cardinality({k \in 1..Len(list) : list[k] = entry})

\* C28: the candidates selected for a pair from the cache made of a listing
\* are, as a multiset, the entries of the listing whose units_pair is the
\* unordered pair, the two tokens of the pair being the same or not.
C28_CacheSelectsAsTheFilter ==
    query.op = "select" =>
        \A k \in 1..Len(query.data) :
            Times(query.cached, query.data[k]) = Times(query.direct, query.data[k])

\* a pair of one token twice: the entry listed with this token on both sides
\* is selected twice from the cache and once by the filter
C28_SameTokenSelectedTwice ==
    /\ query.op = "select"
    /\ query.token_a = query.token_b
    /\ Len(query.data) = 1
    /\ query.direct = query.data
    /\ query.cached = query.data \o query.data

====
